---- MODULE Spec2Model ----
(***************************************************************************)
(* A model of filesentry: the kernel-notification ingestor, the pending    *)
(* changes queue, the file tree, the event debouncer and the worker loop.  *)
(* Paths are sequences of bytes (the logical bytes of a CannonicalPathBuf, *)
(* without the NUL terminator).                                            *)
(***************************************************************************)
EXTENDS Integers, Sequences, FiniteSets, TLC

\* ------------------------------------------------------------------ bounds
\* longest event vector of the debouncer the unit-level specification builds
MaxEvents == 4
\* most add() calls for one path between two take() calls
MaxLog == 3
\* the clock starts at 1 and stops here: one less is the most changes made to
\* the filesystem in one behaviour
MaxTick == 4
\* capacity of the inotify event queue (fs.inotify.max_queued_events)
MaxKQ == 1
\* most add_root calls made after the watcher was started
MaxAddRoot == 1
\* add_handler is called at most this many times
MaxHandlers == 3
\* a compared path has at most this many components
MaxComponents == 2
\* a component of a compared path has at most this many bytes
MaxComponentLen == 2
\* the step of the clock, in milliseconds
Quantum == 100

\* ------------------------------------------------------------------- paths
PATH_SEPERATOR == 47

\* "/r"
P_r == <<47, 114>>
\* "/r/d"
P_d == <<47, 114, 47, 100>>
\* "/r/f"
P_f == <<47, 114, 47, 102>>
\* "/r/d/e"
P_de == <<47, 114, 47, 100, 47, 101>>
\* "/r/d/f"
P_df == <<47, 114, 47, 100, 47, 102>>

\* the paths of the modelled world: a root, and entries one and two levels below
Paths == {P_r, P_d, P_f, P_de, P_df}

\* --------------------------------------------------------- CannonicalPath
\* index of the last path separator of p, 0 when it has none
LastSep(p) ==
    LET idx == {i \in 1..Len(p) : p[i] = PATH_SEPERATOR}
    IN  IF idx = {} THEN 0 ELSE CHOOSE i \in idx : \A j \in idx : j <= i

NoPath == <<0>>

\* CannonicalPath::parent: the bytes before the last separator
Parent(p) == IF LastSep(p) = 0 THEN NoPath ELSE SubSeq(p, 1, LastSep(p) - 1)

\* CannonicalPath::is_parent_of: other starts with self, and a separator follows
is_parent_of(self, other) ==
    /\ Len(other) > Len(self)
    /\ SubSeq(other, 1, Len(self)) = self
    /\ other[Len(self) + 1] = PATH_SEPERATOR

\* CannonicalPath::join
Join(dir, child) == dir \o <<PATH_SEPERATOR>> \o child

\* the buffer of a path: its bytes and the NUL terminator
Buf(p) == IF p = <<>> THEN <<>> ELSE Append(p, 0)

Less == "Less"
Equal == "Equal"
Greater == "Greater"

\* Ord for u8
ByteCmp(a, b) == IF a < b THEN Less ELSE IF a > b THEN Greater ELSE Equal

\* Ord for [u8] on the first n bytes of two slices
SliceCmp(a, b, n) ==
    LET diff == {i \in 1..n : a[i] # b[i]}
    IN  IF diff = {} THEN Equal
        ELSE LET i == CHOOSE k \in diff : \A j \in diff : k <= j
             IN  ByteCmp(a[i], b[i])

\* path.rs cmp, on two buffers
cmp(lhs, rhs) ==
    LET diff == Len(lhs) - Len(rhs)
        shorter == IF Len(lhs) < Len(rhs) THEN Len(lhs) ELSE Len(rhs)
        prefix_len == IF shorter = 0 THEN 0 ELSE shorter - 1
        head == SliceCmp(lhs, rhs, prefix_len)
    IN  IF head # Equal THEN head
        ELSE IF diff < 0 THEN ByteCmp(PATH_SEPERATOR, rhs[prefix_len + 1])
        ELSE IF diff = 0 THEN Equal
        ELSE ByteCmp(lhs[prefix_len + 1], PATH_SEPERATOR)

\* Ord for CannonicalPathBuf
PathCmp(a, b) == cmp(Buf(a), Buf(b))

\* number of path components of p below root
DepthBelow(root, p) ==
    Cardinality({i \in (Len(root) + 1)..Len(p) : p[i] = PATH_SEPERATOR})

\* ---------------------------------------------------------- PendingChanges
NEEDS_RECURSIVE_CRAWL == "NEEDS_RECURSIVE_CRAWL"
MARK_RECURSIVE == "MARK_RECURSIVE"
ORIGIN_WATCHER == "ORIGIN_WATCHER"

\* PendingChanges::default
NewPending == [changes |-> <<>>, recrawl |-> FALSE]

\* PendingChanges::is_empty
PendingIsEmpty(pc) == pc.changes = <<>> /\ ~pc.recrawl

\* PendingChanges::recrawl
PendingRecrawl(pc) == [changes |-> <<>>, recrawl |-> TRUE]

\* the index of the change for path in the vector (path_set), 0 when vacant
PendingIndex(pc, path) ==
    LET idx == {i \in 1..Len(pc.changes) : pc.changes[i].path = path}
    IN  IF idx = {} THEN 0 ELSE CHOOSE i \in idx : TRUE

\* a consolidate that keeps only the flags of the last arrival
Mut_Consolidate_Overwrite(old, new) == new

\* PendingChange::consolidate
Consolidate(old, new) == old \cup (new \ {ORIGIN_WATCHER})

\* an add that does not look at the recrawl bit
Mut_PendingAdd_NoRecrawlCheck(pc, change) ==
    LET i == PendingIndex(pc, change.path)
    IN  IF i # 0
        THEN [pc EXCEPT !.changes[i].flags = Consolidate(@, change.flags)]
        ELSE [pc EXCEPT !.changes = Append(@, change)]

\* PendingChanges::add
PendingAdd(pc, change) ==
    IF pc.recrawl THEN pc
    ELSE LET i == PendingIndex(pc, change.path)
         IN  IF i # 0
             THEN [pc EXCEPT !.changes[i].flags = Consolidate(@, change.flags)]
             ELSE [pc EXCEPT !.changes = Append(@, change)]

\* PendingChanges::add_watcher
PendingAddWatcher(pc, path, flags) ==
    PendingAdd(pc, [path |-> path, flags |-> flags \cup {ORIGIN_WATCHER}])

\* insert_tail of the insertion sort: x moves left past every element it is
\* less than
InsertTail(sorted, x) ==
    LET stay == {j \in 0..Len(sorted) :
                    \A k \in (j + 1)..Len(sorted) : PathCmp(x.path, sorted[k].path) = Less}
        j == CHOOSE m \in stay : \A n \in stay : m <= n
    IN  SubSeq(sorted, 1, j) \o <<x>> \o SubSeq(sorted, j + 1, Len(sorted))

RECURSIVE InsertionSort(_, _)
\* sort_unstable_by on a short slice: insertion sort, left to right
InsertionSort(done, rest) ==
    IF rest = <<>> THEN done
    ELSE InsertionSort(InsertTail(done, Head(rest)), Tail(rest))

\* PendingChanges::drain: the changes in the order they are yielded
PendingDrain(pc) == InsertionSort(<<>>, pc.changes)

\* ---------------------------------------------------------- EventDebouncer
Create == "Create"
Delete == "Delete"
Modified == "Modified"
EventType == {Create, Delete, Modified}

VARIABLES
    \* EventDebouncer
    table,              \* path -> index into events (1-based)
    events,             \* the vector of Event{path, ty}
    \* FileTree
    nodes,              \* the vector of FsNode, indexed by NodeId (1-based)
    dirs,               \* the child lists, indexed by DirId (1-based)
    path_table,         \* path -> NodeId
    \* Worker
    pending_changes,    \* the worker's own PendingChanges buffer
    roots,              \* the sorted list of (NodeId, recursive)
    wpc,                \* where the worker thread is
    setteled,           \* what wait_for_changes returned
    timed,              \* the current wait is a take_timeout
    \* WatcherState and InotifyWatcher
    shared,             \* PendingChangesLock.inner
    notified,           \* the condvar woke the waiting worker
    has_notifications,  \* WatcherState.has_notifications
    notifications,      \* WatcherState.notifications.roots
    shutdown,           \* InotifyWatcher.shutdown
    recrawls,           \* WatcherState.recrawls
    cfilter,            \* Config.filter
    handlers,           \* Config.handlers, each with the value its closure returns
    registered,         \* the number of add_handler calls made so far
    setf,               \* the position of the thread that calls set_filter
    retain,             \* the worker's place in handlers.retain_mut, and the calls made
    watches,            \* InotifyWatcher.watches: watch descriptor -> path
    waker,              \* the mio waker was woken
    ipc,                \* where the ingestor thread is
    ifilter,            \* the ingestor's snapshot of the filter
    \* the kernel and the filesystem
    disk,               \* path -> what lstat finds there
    tick,               \* source of inode numbers and modification times
    kq,                 \* the inotify event queue
    kw,                 \* the watch descriptors the kernel holds
    elapsed,            \* time spent in the current wait, in ticks
    \* history
    batch,              \* the Events value of the last take()
    dlog,               \* per path, the kinds passed to add() since the last take()
    fslog,              \* per path, what happened on disk since the watcher was idle
    out,                \* the emit_event calls of the last tree operation
    delivered,          \* per path, the kinds of the events the handlers received
    callbacks,          \* the add-root callbacks invoked, in order, and when
    arrived,            \* something arrived for the worker during its current wait
    op                  \* the last operation performed

debvars == <<table, events>>
treevars == <<nodes, dirs, path_table>>
workervars == <<pending_changes, roots, wpc, setteled, timed>>
sharedvars == <<shared, notified, has_notifications, notifications, shutdown, recrawls,
                cfilter, handlers, registered, setf, retain>>
ingestorvars == <<watches, waker, ipc, ifilter>>
kernelvars == <<disk, tick, kq, kw, elapsed>>
histvars == <<batch, dlog, fslog, out, delivered, callbacks, arrived, op>>

vars == <<debvars, treevars, workervars, sharedvars, ingestorvars, kernelvars, histvars>>

\* a debouncer value: the hash table and the event vector
NewDebouncer == [table |-> <<>>, events |-> <<>>]

\* the kind of the table's entry for path, "none" when the entry is vacant
EntryKind(deb, path) ==
    IF path \in DOMAIN deb.table THEN deb.events[deb.table[path]].ty ELSE "none"

\* the function f without the key k
Without(f, k) == [x \in (DOMAIN f) \ {k} |-> f[x]]

\* a plausible slip: a Delete that follows a Delete or a Modified is ignored
Mut_DebAdd_KeepOnDelete(deb, path, ty) ==
    IF path \in DOMAIN deb.table
    THEN LET i == deb.table[path]
             old == deb.events[i].ty
         IN  CASE old = Create /\ ty = Delete ->
                    [deb EXCEPT !.table = Without(deb.table, path)]
               [] old = Delete /\ ty = Create ->
                    [deb EXCEPT !.events[i].ty = Modified]
               [] OTHER -> deb
    ELSE [table |-> (path :> (Len(deb.events) + 1)) @@ deb.table,
          events |-> Append(deb.events, [path |-> path, ty |-> ty])]

\* EventDebouncer::add
DebAdd(deb, path, ty) ==
    IF path \in DOMAIN deb.table
    THEN \* Entry::Occupied
         LET i == deb.table[path]
             old == deb.events[i].ty
         IN  CASE old = Create /\ ty = Delete ->
                    \* entry.remove(): only the table entry goes, the event
                    \* stays in the vector
                    [deb EXCEPT !.table = Without(deb.table, path)]
               [] old # Create /\ ty = Delete ->
                    [deb EXCEPT !.events[i].ty = Delete]
               [] old = Delete /\ ty = Create ->
                    [deb EXCEPT !.events[i].ty = Modified]
               [] OTHER -> deb
    ELSE \* Entry::Vacant
         [table |-> (path :> (Len(deb.events) + 1)) @@ deb.table,
          events |-> Append(deb.events, [path |-> path, ty |-> ty])]

\* EventDebouncer::take: the batch handed out
DebTakeBatch(deb) == deb.events

\* EventDebouncer::is_empty
DebIsEmpty(deb) == deb.events = <<>>

\* ---------------------------------------------------------------- Metadata
\* what lstat finds at a path of the modelled filesystem: nothing ("none"),
\* a regular file, a directory, or something else ("other": a symlink, a
\* fifo, a socket, a device)
NoEntry == [kind |-> "none", inode |-> 0, mtime |-> 0, size |-> 0]

NoMeta == [some |-> FALSE]

\* Metadata::for_path: None for a path that is not there (ENOENT, ENOTDIR), for
\* one whose lstat fails with another error (kind "denied": the error is
\* logged), and for what is neither a regular file nor a directory ("other")
for_path(fs, path) ==
    IF path \in DOMAIN fs /\ fs[path].kind \in {"file", "dir"}
    THEN [some |-> TRUE, is_dir |-> fs[path].kind = "dir", mtime |-> fs[path].mtime,
          size |-> fs[path].size, inode |-> fs[path].inode]
    ELSE NoMeta

\* ---------------------------------------------------------------- FileTree
\* tree::Flags, as sets of bits
MAYBE_DELETED == {1}
WATCH_CHILDREN == {2}
FLAG_RECURSIVE == {2, 4}

\* NodeId::NONE and DirId::NONE
NONE == 0

MetaDir == [k |-> "Dir"]
MetaDeleted == [k |-> "Deleted"]
MetaFile(mtime, size) == [k |-> "File", mtime |-> mtime, size |-> size]

\* NodeMeta::new
NodeMetaNew(m) == IF m.is_dir THEN MetaDir ELSE MetaFile(m.mtime, m.size)

\* a comparison that looks at mtime and size whatever skip_check says
Mut_change_type_AlwaysCheck(old, new, skip_check) ==
    CASE old.k = "File" /\ new.k = "File" ->
            IF old.mtime = new.mtime /\ old.size = new.size THEN "none" ELSE Modified
      [] old.k \in {"Deleted", "Dir"} /\ new.k = "File" -> Create
      [] old.k = "File" /\ new.k \in {"Deleted", "Dir"} -> Delete
      [] OTHER -> "none"

\* NodeMeta::change_type; "none" for None
change_type(old, new, skip_check) ==
    CASE old.k = "File" /\ new.k = "File" ->
            IF ~skip_check /\ old.mtime = new.mtime /\ old.size = new.size
            THEN "none" ELSE Modified
      [] old.k \in {"Deleted", "Dir"} /\ new.k = "File" -> Create
      [] old.k = "File" /\ new.k \in {"Deleted", "Dir"} -> Delete
      [] OTHER -> "none"

\* The state the worker's tree operations act on:
\*   nodes, dirs, path_table   FileTree
\*   deb                       the EventDebouncer behind emit_event
\*   out                       history: the emit_event calls of the operation
\*   calls                     history: the apply_change calls of a transaction,
\*                             each with what it returned and whether the
\*                             crawl of its node followed
\*   watches                   InotifyWatcher.watches: watch descriptor -> path
\*   kw                        the kernel's watch descriptors (a watch descriptor
\*                             is named by the inode it watches)
\*   panic                     an index out of bounds ended the thread
NewTree ==
    [nodes |-> <<>>, dirs |-> <<>>, path_table |-> <<>>, deb |-> NewDebouncer,
     out |-> <<>>, calls |-> <<>>, watches |-> <<>>, kw |-> {}, panic |-> FALSE]

\* the path_table lookup
Lookup(S, path) == IF path \in DOMAIN S.path_table THEN S.path_table[path] ELSE NONE

\* emit_event as the worker passes it: |path, ty| self.events.add(path, ty)
emit_event(S, path, ty) ==
    [S EXCEPT !.deb = DebAdd(S.deb, path, ty),
              !.out = Append(@, [path |-> path, ty |-> ty])]

\* a tree that watches the directory of a root and no directory below it
Mut_add_watch_RootOnly(S, fs, path) ==
    IF for_path(fs, path).some /\ fs[path].kind = "dir" /\ Parent(path) = <<>>
    THEN [S EXCEPT !.kw = @ \cup {fs[path].inode},
                   !.watches = (fs[path].inode :> path) @@ @]
    ELSE S

\* InotifyWatcher::watch_dir behind add_watch: the kernel registers a watch on
\* a directory (ONLYDIR) and the descriptor is mapped to the path; an error is
\* logged
add_watch(S, fs, path) ==
    IF for_path(fs, path).some /\ fs[path].kind = "dir"
    THEN [S EXCEPT !.kw = @ \cup {fs[path].inode},
                   !.watches = (fs[path].inode :> path) @@ @]
    ELSE S

\* FileTree::reserve_dir
reserve_dir(S, node) ==
    [S EXCEPT !.nodes[node].children = Len(S.dirs) + 1,
              !.dirs = Append(@, <<>>)]

\* FileTree::add_child
add_child(S, node, child) ==
    LET S1 == IF S.nodes[node].children = NONE THEN reserve_dir(S, node) ELSE S
    IN  [S1 EXCEPT !.dirs[S1.nodes[node].children] = Append(@, child)]

RECURSIVE DeleteLoop(_, _)
\* the loop of FileTree::delete_rec over its part of the work stack
DeleteLoop(S, stack) ==
    IF stack = <<>> THEN S
    ELSE LET top == stack[Len(stack)]
             kids == S.dirs[S.nodes[top.id].children]
         IN  IF top.child >= Len(kids)
             THEN DeleteLoop([S EXCEPT !.nodes[top.id].meta = MetaDeleted],
                             SubSeq(stack, 1, Len(stack) - 1))
             ELSE LET child_id == kids[top.child + 1]
                      st1 == [stack EXCEPT ![Len(stack)].child = @ + 1]
                      m == S.nodes[child_id].meta
                      S1 == IF m.k = "File"
                            THEN emit_event(S, S.nodes[child_id].path, Delete)
                            ELSE S
                      st2 == IF m.k = "Dir" /\ S.nodes[child_id].children # NONE
                             THEN Append(st1, [id |-> child_id, child |-> 0])
                             ELSE st1
                  IN  DeleteLoop([S1 EXCEPT !.nodes[child_id].meta = MetaDeleted], st2)

\* FileTree::delete_rec
delete_rec(S, id) ==
    IF S.nodes[id].children = NONE THEN S
    ELSE DeleteLoop([S EXCEPT !.nodes[id].meta = MetaDeleted],
                    <<[id |-> id, child |-> 0]>>)

\* VacantEntry::insert on the path table
entry_insert(S, path, id) == [S EXCEPT !.path_table = (path :> id) @@ @]

\* a path table that keeps the entry of an insert that was dropped
Mut_entry_remove_Keep(S, path) == S

\* path_table.find_entry(..).unwrap().remove()
entry_remove(S, path) ==
    [S EXCEPT !.path_table = [q \in (DOMAIN @) \ {path} |-> @[q]]]

\* FileTree::apply_change: the state after it, the node and the recurse flag
apply_change(S, fs, change) ==
    LET fs_meta == for_path(fs, change.path)
        id0 == Lookup(S, change.path)
        recursive0 == NEEDS_RECURSIVE_CRAWL \in change.flags
        mark_recursive == MARK_RECURSIVE \in change.flags
    IN  IF id0 # NONE
        THEN \* Entry::Occupied
             LET S1 == IF mark_recursive
                       THEN [S EXCEPT !.nodes[id0].flags = @ \cup FLAG_RECURSIVE]
                       ELSE S
                 node == S1.nodes[id0]
             IN  IF fs_meta.some
                 THEN LET meta == NodeMetaNew(fs_meta)
                          inode_changed == fs_meta.inode # node.inode
                          changed == change_type(node.meta, meta,
                                        inode_changed \/ ORIGIN_WATCHER \in change.flags)
                          S2 == IF changed # "none"
                                THEN emit_event(S1, change.path, changed)
                                ELSE S1
                          recursive == recursive0 \/ inode_changed \/ changed = Create
                          watch_children == WATCH_CHILDREN \subseteq node.flags
                          S3 == [S2 EXCEPT !.nodes[id0].inode = fs_meta.inode,
                                           !.nodes[id0].meta = meta]
                          S4 == IF /\ fs_meta.is_dir
                                   /\ node.children = NONE
                                   /\ fs_meta.size # 0
                                   /\ watch_children
                                THEN reserve_dir(S3, id0)
                                ELSE S3
                      IN  [s |-> S4, node |-> id0, recurse |-> recursive /\ watch_children]
                 ELSE LET S2 == [S1 EXCEPT !.nodes[id0].meta = MetaDeleted]
                          S3 == CASE node.meta.k = "Dir" -> delete_rec(S2, id0)
                                  [] node.meta.k = "File" ->
                                        emit_event(S2, change.path, Delete)
                                  [] OTHER -> S2
                      IN  [s |-> S3, node |-> id0, recurse |-> TRUE]
        ELSE \* Entry::Vacant
             IF ~fs_meta.some THEN [s |-> S, node |-> NONE, recurse |-> TRUE]
             ELSE LET meta == NodeMetaNew(fs_meta)
                      id == Len(S.nodes) + 1
                      parent == Lookup(S, Parent(change.path))
                      S0 == entry_insert(S, change.path, id)
                  IN  IF parent = NONE
                      THEN \* the entry just inserted is removed again
                           [s |-> entry_remove(S0, change.path), node |-> NONE,
                            recurse |-> TRUE]
                      ELSE LET S1 == add_child(S0, parent, id)
                               recursive == mark_recursive
                                            \/ FLAG_RECURSIVE \subseteq S1.nodes[parent].flags
                               S2 == [S1 EXCEPT
                                        !.nodes = Append(@,
                                            [path |-> change.path, meta |-> meta,
                                             flags |-> IF recursive THEN FLAG_RECURSIVE ELSE {},
                                             inode |-> fs_meta.inode, children |-> NONE])]
                               S3 == IF ~fs_meta.is_dir
                                     THEN emit_event(S2, change.path, Create)
                                     ELSE IF recursive /\ fs_meta.size # 0
                                          THEN reserve_dir(S2, id)
                                          ELSE S2
                           IN  [s |-> S3, node |-> id, recurse |-> recursive]

\* FileTree::add: the state after it and the node, NONE for None
add(S, fs, path, recursive, root) ==
    LET id0 == Lookup(S, path)
    IN  IF id0 # NONE
        THEN \* Entry::Occupied
             IF ~recursive THEN [s |-> S, node |-> NONE]
             ELSE IF root /\ S.nodes[id0].meta.k # "Dir" THEN [s |-> S, node |-> NONE]
             ELSE [s |-> [S EXCEPT !.nodes[id0].flags = @ \cup FLAG_RECURSIVE],
                   node |-> id0]
        ELSE \* Entry::Vacant
             LET fs_meta == for_path(fs, path)
                 id == Len(S.nodes) + 1
                 parent == Lookup(S, Parent(path))
             IN  IF ~fs_meta.some THEN [s |-> S, node |-> NONE]
                 ELSE IF parent = NONE /\ ~root
                 THEN [s |-> entry_remove(entry_insert(S, path, id), path), node |-> NONE]
                 ELSE LET S0 == entry_insert(S, path, id)
                          S1 == IF parent # NONE THEN add_child(S0, parent, id) ELSE S0
                          S2 == [S1 EXCEPT
                                   !.nodes = Append(@,
                                       [path |-> path, meta |-> NodeMetaNew(fs_meta),
                                        inode |-> fs_meta.inode, children |-> NONE,
                                        flags |-> IF recursive THEN FLAG_RECURSIVE
                                                  ELSE IF root THEN WATCH_CHILDREN
                                                  ELSE {}])]
                          S3 == IF fs_meta.is_dir /\ (recursive \/ root) /\ fs_meta.size # 0
                                THEN reserve_dir(S2, id)
                                ELSE S2
                      IN  [s |-> S3, node |-> id]

\* FileTree::add_root
add_root(S, fs, root, recursive) == add(S, fs, root, recursive, TRUE)

\* Filter::ignore_path: a filter is the set of paths it ignores (the default
\* filter ignores paths ending in ".git", none of the modelled paths)
ignore_path(filter, path) == path \in filter

\* a filter asked about the path alone
Mut_ignore_path_rec_SelfOnly(filter, path) == ignore_path(filter, path)

RECURSIVE ignore_path_rec(_, _)
\* Filter::ignore_path_rec: the path or one of its parents is ignored; the
\* parent of a top-level directory is "/", the empty sequence here
ignore_path_rec(filter, path) ==
    IF ignore_path(filter, path) THEN TRUE
    ELSE IF path = <<>> THEN FALSE
    ELSE ignore_path_rec(filter, Parent(path))

DefaultFilter == {}

\* the order in which a walk yields the modelled paths: parents first
WalkOrder == <<P_r, P_d, P_de, P_df, P_f>>

\* deeper than any modelled path: a walk without max_depth
NoMaxDepth == 99

\* WalkDir::new(root).follow_links(false).same_file_system(true)[.max_depth(n)]:
\* the entries of depth >= 1 it yields, in order
Walk(fs, root, max_depth) ==
    LET yielded(p) ==
            /\ fs[root].kind = "dir"
            /\ is_parent_of(root, p)
            /\ fs[p].kind # "none"
            /\ DepthBelow(root, p) <= max_depth
        entry(p) == [path |-> p, depth |-> DepthBelow(root, p), is_dir |-> fs[p].kind = "dir"]
        order == SelectSeq(WalkOrder, yielded)
    IN  [i \in 1..Len(order) |-> entry(order[i])]

\* set_maybe_deleted_flag on every child of node
MarkChildren(S, node) ==
    LET kids == S.dirs[S.nodes[node].children]
        marked == {kids[i] : i \in 1..Len(kids)}
    IN  [S EXCEPT !.nodes = [id \in DOMAIN S.nodes |->
                                IF id \in marked
                                THEN [S.nodes[id] EXCEPT !.flags = @ \cup MAYBE_DELETED]
                                ELSE S.nodes[id]]]

RECURSIVE CrawlScan(_, _, _)
\* a popped frame of crawl: every child still marked MAYBE_DELETED is emitted
\* as Delete and handed to delete_rec
CrawlScan(S, kids, i) ==
    IF i > Len(kids) THEN S
    ELSE IF MAYBE_DELETED \subseteq S.nodes[kids[i]].flags
         THEN CrawlScan(delete_rec(emit_event(S, S.nodes[kids[i]].path, Delete), kids[i]),
                        kids, i + 1)
         ELSE CrawlScan(S, kids, i + 1)

RECURSIVE CrawlPop(_, _, _)
\* work_stack.pop_if(|(_, depth)| *depth >= d), repeated, each popped frame scanned
CrawlPop(S, stack, d) ==
    IF stack = <<>> \/ stack[Len(stack)].depth < d THEN [s |-> S, stack |-> stack]
    ELSE LET node == stack[Len(stack)].node
         IN  CrawlPop(CrawlScan(S, S.dirs[S.nodes[node].children], 1),
                      SubSeq(stack, 1, Len(stack) - 1), d)

RECURSIVE CrawlLoop(_, _, _, _, _, _, _, _)
\* the walk loop of FileTree::crawl and the final pops
CrawlLoop(S, fs, filter, entries, i, stack, skip, recursive) ==
    IF i > Len(entries) THEN CrawlPop(S, stack, 0).s
    ELSE LET e == entries[i]
             flags == IF recursive THEN {NEEDS_RECURSIVE_CRAWL, MARK_RECURSIVE}
                      ELSE {NEEDS_RECURSIVE_CRAWL}
         IN  IF skip # NoPath /\ is_parent_of(skip, e.path)
             THEN CrawlLoop(S, fs, filter, entries, i + 1, stack, skip, recursive)
             ELSE IF ignore_path(filter, e.path)
             THEN CrawlLoop(S, fs, filter, entries, i + 1, stack,
                            IF e.is_dir THEN e.path ELSE NoPath, recursive)
             ELSE LET \* r is what apply_change returned, p what the pops left
                      Entered(r, p, enter, S3) ==
                          LET push == enter /\ S3.nodes[r.node].children # NONE
                          IN  CrawlLoop(IF push THEN MarkChildren(S3, r.node) ELSE S3,
                                        fs, filter, entries, i + 1,
                                        IF push
                                        THEN Append(p.stack, [node |-> r.node, depth |-> e.depth])
                                        ELSE p.stack,
                                        NoPath, recursive)
                      Popped(r, p) ==
                          LET enter == p.s.nodes[r.node].meta.k = "Dir" /\ recursive
                          IN  Entered(r, p, enter,
                                      IF enter THEN add_watch(p.s, fs, e.path) ELSE p.s)
                      Applied(r) ==
                          IF r.node = NONE
                          THEN \* self[NodeId::NONE]: index out of bounds
                               [r.s EXCEPT !.panic = TRUE]
                          ELSE Popped(r, CrawlPop([r.s EXCEPT !.nodes[r.node].flags =
                                                            @ \ MAYBE_DELETED],
                                                  stack, e.depth))
                  IN  Applied(apply_change(S, fs, [path |-> e.path, flags |-> flags]))

\* FileTree::crawl
crawl(S, fs, filter, root) ==
    LET recursive == FLAG_RECURSIVE \subseteq S.nodes[root].flags
        has == S.nodes[root].children # NONE
        Watched(S1) ==
            CrawlLoop(IF has THEN MarkChildren(S1, root) ELSE S1, fs, filter,
                      Walk(fs, S.nodes[root].path, IF recursive THEN NoMaxDepth ELSE 1),
                      1, IF has THEN <<[node |-> root, depth |-> 0]>> ELSE <<>>,
                      NoPath, recursive)
    IN  Watched(add_watch(S, fs, S.nodes[root].path))

\* the index after i of the first change that does not lie beneath path
SkipChildren(list, i, path) ==
    LET stop == {j \in (i + 1)..(Len(list) + 1) :
                    j = Len(list) + 1 \/ ~is_parent_of(path, list[j].path)}
    IN  CHOOSE j \in stop : \A k \in stop : j <= k

\* a transaction that crawls every directory it has a change for
Mut_ShouldCrawl_EveryDirectory(S, node, recurse, filter, path) ==
    /\ node # NONE
    /\ S.nodes[node].meta.k = "Dir"
    /\ ~ignore_path(filter, path)

\* apply_transaction: if recurse { if node.is_some() && self[node].meta.is_dir()
\* && !filter.ignore_path(..) { self.crawl(..) } .. }
ShouldCrawl(S, node, recurse, filter, path) ==
    /\ recurse
    /\ node # NONE
    /\ S.nodes[node].meta.k = "Dir"
    /\ ~ignore_path(filter, path)

RECURSIVE TransactionLoop(_, _, _, _, _)
\* the loop of FileTree::apply_transaction over the drained changes
TransactionLoop(S, fs, filter, list, i) ==
    IF i > Len(list) \/ S.panic THEN S
    ELSE LET change == list[i]
             \* r is what apply_change returned
             Crawls(r) == ShouldCrawl(r.s, r.node, r.recurse, filter, change.path)
             Called(r) ==
                 [r.s EXCEPT !.calls = Append(@, [path |-> change.path, flags |-> change.flags,
                                                   vacant |-> Lookup(S, change.path) = NONE,
                                                   node |-> r.node, recurse |-> r.recurse,
                                                   crawled |-> Crawls(r)])]
             Applied(r) ==
                 IF r.recurse
                 THEN TransactionLoop(IF Crawls(r)
                                      THEN crawl(Called(r), fs, filter, r.node)
                                      ELSE Called(r),
                                      fs, filter, list, SkipChildren(list, i, change.path))
                 ELSE TransactionLoop(Called(r), fs, filter, list, i + 1)
         IN  Applied(apply_change(S, fs, change))

\* FileTree::apply_transaction
apply_transaction(S, fs, filter, transaction) ==
    TransactionLoop(S, fs, filter, PendingDrain(transaction), 1)

RECURSIVE CrawlRootLoop(_, _, _, _, _, _, _)
\* the walk loop of FileTree::crawl_root
CrawlRootLoop(S, fs, filter, entries, i, skip, recursive) ==
    IF i > Len(entries) THEN S
    ELSE LET e == entries[i]
         IN  IF skip # NoPath /\ is_parent_of(skip, e.path)
             THEN CrawlRootLoop(S, fs, filter, entries, i + 1, skip, recursive)
             ELSE IF ignore_path(filter, e.path)
             THEN CrawlRootLoop(S, fs, filter, entries, i + 1,
                                IF e.is_dir THEN e.path ELSE NoPath, recursive)
             ELSE LET \* r is what add returned
                      Added(r) ==
                          IF r.node # NONE
                          THEN CrawlRootLoop(
                                   IF r.s.nodes[r.node].meta.k = "Dir" /\ recursive
                                   THEN add_watch(r.s, fs, e.path) ELSE r.s,
                                   fs, filter, entries, i + 1, NoPath, recursive)
                          ELSE \* walk.skip_current_dir(): the directory just yielded, or
                               \* for any other entry the directory it lies in
                               CrawlRootLoop(r.s, fs, filter, entries, i + 1,
                                             IF e.is_dir THEN e.path ELSE Parent(e.path),
                                             recursive)
                  IN  Added(add(S, fs, e.path, recursive, FALSE))

\* an initial crawl that walks to any depth whatever the kind of the root
Mut_crawl_root_NoMaxDepth(S, fs, filter, root, recursive) ==
    CrawlRootLoop(S, fs, filter, Walk(fs, S.nodes[root].path, NoMaxDepth), 1, NoPath, recursive)

\* FileTree::crawl_root
crawl_root(S, fs, filter, root, recursive) ==
    CrawlRootLoop(S, fs, filter,
                  Walk(fs, S.nodes[root].path, IF recursive THEN NoMaxDepth ELSE 1),
                  1, NoPath, recursive)

Deb == [table |-> table, events |-> events]

\* the debouncer after the step
DebNext == [table |-> table', events |-> events']

NoLog == [p \in Paths |-> <<>>]

NoDelivered == [p \in Paths |-> <<>>]

\* no thread is in set_filter, and no recrawl has been asked for by it
NoSetFilter == [pc |-> "idle", f |-> DefaultFilter, asked |-> 0]

\* the worker is not in handlers.retain_mut; n counts the batches taken for the
\* handlers and last holds, per handler, the number of the last batch it got
NoRetain ==
    [i |-> 0, kept |-> <<>>, calls |-> <<>>, running |-> <<>>, n |-> 0,
     last |-> [id \in 1..MaxHandlers |-> 0]]

\* the Mutex of the configuration is free: the worker holds it for the whole
\* of handlers.retain_mut, every other use is a single step
ConfigFree == retain.i = 0

\* nothing has been constructed or started
NothingStarted ==
    /\ table = <<>> /\ events = <<>>
    /\ nodes = <<>> /\ dirs = <<>> /\ path_table = <<>>
    /\ pending_changes = NewPending /\ roots = <<>>
    /\ wpc = "loop" /\ setteled = FALSE /\ timed = FALSE
    /\ shared = NewPending /\ notified = FALSE
    /\ has_notifications = FALSE /\ notifications = <<>>
    /\ shutdown = FALSE /\ recrawls = 0
    /\ cfilter = DefaultFilter /\ handlers = <<>> /\ registered = 0
    /\ setf = NoSetFilter /\ retain = NoRetain
    /\ watches = <<>> /\ waker = FALSE /\ ipc = "poll" /\ ifilter = DefaultFilter
    /\ disk = [p \in Paths |-> NoEntry] /\ tick = 0 /\ kq = <<>> /\ kw = {}
    /\ elapsed = 0
    /\ batch = <<>> /\ dlog = NoLog /\ fslog = NoLog /\ out = <<>> /\ delivered = NoDelivered
    /\ callbacks = <<>> /\ arrived = FALSE

\* the state in which nothing has been constructed or started
Blank == NothingStarted /\ op = [kind |-> "init"]

\* ------------------------------------------- the debouncer, driven directly
DInit == Blank

\* a call of EventDebouncer::add(path, ty)
D_Add(path, ty) ==
    /\ Len(events) < MaxEvents
    /\ Len(dlog[path]) < MaxLog
    /\ LET d == DebAdd(Deb, path, ty)
       IN  /\ table' = d.table
           /\ events' = d.events
    /\ dlog' = [dlog EXCEPT ![path] = Append(@, ty)]
    /\ op' = [kind |-> "add", path |-> path, ty |-> ty]
    /\ batch' = <<>>
    /\ UNCHANGED <<treevars, workervars, sharedvars, ingestorvars, kernelvars>>
    /\ UNCHANGED <<fslog, out, delivered, callbacks, arrived>>

\* a call of EventDebouncer::take()
D_Take ==
    /\ batch' = DebTakeBatch(Deb)
    /\ table' = <<>>
    /\ events' = <<>>
    /\ dlog' = NoLog
    /\ op' = [kind |-> "take", log |-> dlog]
    /\ UNCHANGED <<treevars, workervars, sharedvars, ingestorvars, kernelvars>>
    /\ UNCHANGED <<fslog, out, delivered, callbacks, arrived>>

DNext ==
    \/ \E path \in {P_f, P_df}, ty \in EventType : D_Add(path, ty)
    \/ D_Take

\* the debouncer driven directly: any sequence of add() and take() calls
SpecDebouncer == DInit /\ [][DNext]_vars

\* the events of a batch that are for path
EventsFor(b, path) == {i \in 1..Len(b) : b[i].path = path}

\* C1: an add(p, Create) and then an add(p, Delete) since the last take(), and
\* nothing else for p, leave no event for p in the batch that take() returns.
C1_CreateDeleteCollapses ==
    op.kind = "take" =>
        \A p \in Paths : op.log[p] = <<Create, Delete>> => EventsFor(batch, p) = {}

\* C2: the batch that take() returns holds at most one event for any path.
C2_OneEventPerPath ==
    op.kind = "take" => \A p \in Paths : Cardinality(EventsFor(batch, p)) <= 1

\* the merge table of C3, for the pairs the claim lists
C3_Expected(prior, incoming) ==
    CASE prior = "none" -> incoming
      [] prior = Modified /\ incoming = Delete -> Delete
      [] prior = Delete /\ incoming = Create -> Modified
      [] prior = Create /\ incoming = Modified -> Create
      [] prior = Modified /\ incoming = Modified -> Modified
      [] prior = Delete /\ incoming = Modified -> Delete
      [] prior = Modified /\ incoming = Create -> Modified
      [] OTHER -> "any"

\* C3: add(path, incoming) leaves the entry of path with the kind the merge
\* table gives for (prior, incoming), and leaves every other path's entry as
\* it was.
C3_MergeTable ==
    [][op'.kind = "add" /\ op' # op =>
          /\ LET want == C3_Expected(EntryKind(Deb, op'.path), op'.ty)
             IN  want # "any" => EntryKind(DebNext, op'.path) = want
          /\ \A q \in Paths \ {op'.path} : EntryKind(DebNext, q) = EntryKind(Deb, q)
      ]_vars

\* a Modified entry met a Delete and became a Delete
C3_Witness ==
    /\ op.kind = "add" /\ op.ty = Delete
    /\ dlog[op.path] = <<Modified, Delete>>
    /\ EntryKind(Deb, op.path) = Delete

\* ------------------------------------------------- the kernel and the disk
Q_OVERFLOW == "QUEUE_OVERFLOW"
IGNORED == "IGNORED"
DELETE_SELF == "DELETE_SELF"
CREATE == "CREATE"
DELETE == "DELETE"
MODIFY == "MODIFY"
ISDIR == "ISDIR"

\* the watch descriptor of the overflow event
InvalidWd == -1

\* the paths that are directories when they exist, and those that are files
DirPaths == {P_d, P_de}
FilePaths == {P_f, P_df}

\* the last component of a path
Name(p) == SubSeq(p, LastSep(p) + 1, Len(p))

OverflowEvent == [wd |-> InvalidWd, child |-> <<>>, flags |-> {Q_OVERFLOW}]

\* the kernel queues an event: an event equal to the newest queued one is
\* merged with it, and a full queue takes one overflow event and then drops
KPush(q, ev) ==
    IF Len(q) >= MaxKQ
    THEN IF q[Len(q)] = OverflowEvent THEN q ELSE Append(q, OverflowEvent)
    ELSE IF q # <<>> /\ q[Len(q)] = ev THEN q
    ELSE Append(q, ev)

\* the event the watch on the parent directory of p reports, if there is one
KNotifyParent(q, fs, watched, p, flags) ==
    LET parent == Parent(p)
    IN  IF parent \in Paths /\ fs[parent].kind = "dir" /\ fs[parent].inode \in watched
        THEN KPush(q, [wd |-> fs[parent].inode, child |-> Name(p), flags |-> flags])
        ELSE q

\* mkdir p; size is the st_size the filesystem reports for the directory
E_MkDir(p, size) ==
    /\ tick < MaxTick
    /\ disk[p].kind = "none"
    /\ disk[Parent(p)].kind = "dir"
    /\ disk' = [disk EXCEPT ![p] = [kind |-> "dir", inode |-> tick + 1,
                                    mtime |-> tick + 1, size |-> size]]
    /\ tick' = tick + 1
    /\ kq' = KNotifyParent(kq, disk, kw, p, {CREATE, ISDIR})
    /\ UNCHANGED <<debvars, treevars, workervars, sharedvars, ingestorvars, kw, elapsed>>
    /\ fslog' = [fslog EXCEPT ![p] = Append(@, "mk")]
    /\ UNCHANGED <<batch, dlog, out, delivered, callbacks, arrived, op>>

\* a new regular file p is created
E_Create(p) ==
    /\ tick < MaxTick
    /\ disk[p].kind = "none"
    /\ disk[Parent(p)].kind = "dir"
    /\ disk' = [disk EXCEPT ![p] = [kind |-> "file", inode |-> tick + 1,
                                    mtime |-> tick + 1, size |-> 1]]
    /\ tick' = tick + 1
    /\ kq' = KNotifyParent(kq, disk, kw, p, {CREATE})
    /\ UNCHANGED <<debvars, treevars, workervars, sharedvars, ingestorvars, kw, elapsed>>
    /\ fslog' = [fslog EXCEPT ![p] = Append(@, "mk")]
    /\ UNCHANGED <<batch, dlog, out, delivered, callbacks, arrived, op>>

\* the regular file p is written to
E_Write(p) ==
    /\ tick < MaxTick
    /\ disk[p].kind = "file"
    /\ disk' = [disk EXCEPT ![p].mtime = tick + 1]
    /\ tick' = tick + 1
    /\ kq' = KNotifyParent(kq, disk, kw, p, {MODIFY})
    /\ UNCHANGED <<debvars, treevars, workervars, sharedvars, ingestorvars, kw, elapsed>>
    /\ fslog' = [fslog EXCEPT ![p] = Append(@, "wr")]
    /\ UNCHANGED <<batch, dlog, out, delivered, callbacks, arrived, op>>

\* unlink of the file p, or rmdir of the empty directory p: the parent's watch
\* reports the deletion, and a watch on p itself reports DELETE_SELF, is
\* removed by the kernel and reports IGNORED
E_Remove(p) ==
    /\ tick < MaxTick
    /\ disk[p].kind # "none"
    /\ \A c \in Paths : is_parent_of(p, c) => disk[c].kind = "none"
    /\ disk' = [disk EXCEPT ![p] = NoEntry]
    /\ tick' = tick + 1
    /\ LET isdir == disk[p].kind = "dir"
           q1 == KNotifyParent(kq, disk, kw, p, IF isdir THEN {DELETE, ISDIR} ELSE {DELETE})
           self == disk[p].inode
       IN  IF isdir /\ self \in kw
           THEN /\ kq' = KPush(KPush(q1, [wd |-> self, child |-> <<>>, flags |-> {DELETE_SELF}]),
                               [wd |-> self, child |-> <<>>, flags |-> {IGNORED}])
                /\ kw' = kw \ {self}
           ELSE /\ kq' = q1
                /\ kw' = kw
    /\ UNCHANGED <<debvars, treevars, workervars, sharedvars, ingestorvars, elapsed>>
    /\ fslog' = [fslog EXCEPT ![p] = Append(@, "rm")]
    /\ UNCHANGED <<batch, dlog, out, delivered, callbacks, arrived, op>>

\* ------------------------------------------------------------ the ingestor
MOVE_SELF == "MOVE_SELF"
UNMOUNT == "UNMOUNT"

\* InotifyWatcher::handle_event: the pending queue and the watch map after it,
\* whether it took the queue's lock, and whether it put something in the queue
handle_event(pc, w, filter, event) ==
    LET same == [pc |-> pc, watches |-> w, locks |-> FALSE, arrival |-> FALSE]
    IN  IF Q_OVERFLOW \in event.flags
        THEN [same EXCEPT !.pc = PendingRecrawl(pc), !.locks = TRUE, !.arrival = TRUE]
        ELSE IF event.wd \notin DOMAIN w
        THEN IF event.wd < 0 \/ event.flags \cap {MOVE_SELF, IGNORED} # {}
             THEN [same EXCEPT !.pc = PendingRecrawl(pc), !.locks = TRUE, !.arrival = TRUE]
             ELSE same
        ELSE LET dir == w[event.wd]
                 watch_deleted ==
                     event.flags \cap {IGNORED, MOVE_SELF, DELETE_SELF, UNMOUNT} # {}
             IN  IF event.child = <<>> \/ watch_deleted
                 THEN [pc |-> PendingAddWatcher(pc, dir, {NEEDS_RECURSIVE_CRAWL}),
                       watches |-> IF IGNORED \in event.flags THEN Without(w, event.wd) ELSE w,
                       locks |-> TRUE, arrival |-> TRUE]
                 ELSE LET path == Join(dir, event.child)
                      IN  IF ignore_path(filter, path) THEN same
                          ELSE [same EXCEPT
                                  !.pc = PendingAddWatcher(pc, path,
                                            IF event.flags \cap {CREATE, DELETE} # {}
                                            THEN {NEEDS_RECURSIVE_CRAWL} ELSE {}),
                                  !.locks = TRUE, !.arrival = TRUE]

\* Condvar::notify_all: it wakes the worker only if the worker is blocked in
\* the condition variable
Notify == notified' = (wpc = "blocked")

\* something arrives for the worker while it is in a wait
Arrives == arrived' = (arrived \/ wpc \in {"checked", "blocked"})

\* the ingestor returns from poll: a message makes it reload the filter and
\* leave if the watcher is shut down, readable events make it read
I_Poll ==
    /\ ipc = "poll"
    /\ waker \/ kq # <<>>
    /\ waker => ConfigFree
    /\ waker' = FALSE
    /\ ifilter' = IF waker THEN cfilter ELSE ifilter
    /\ ipc' = IF waker /\ shutdown THEN "exited"
              ELSE IF kq # <<>> THEN "reading" ELSE "poll"
    /\ UNCHANGED <<debvars, treevars, workervars, sharedvars, watches, kernelvars>>
    /\ UNCHANGED <<batch, dlog, fslog, out, delivered, callbacks, arrived, op>>

\* the ingestor reads one event and handles it
I_HandleEvent ==
    /\ ipc = "reading"
    /\ kq # <<>>
    /\ LET r == handle_event(shared, watches, ifilter, Head(kq))
       IN  /\ r.locks => wpc # "checked"
           /\ shared' = r.pc
           /\ watches' = r.watches
           /\ arrived' = (arrived \/ (r.arrival /\ wpc \in {"checked", "blocked"}))
    /\ kq' = Tail(kq)
    /\ UNCHANGED <<debvars, treevars, workervars, waker, ipc, ifilter>>
    /\ UNCHANGED <<notified, has_notifications, notifications, shutdown, recrawls, cfilter,
                   handlers, registered, setf, retain>>
    /\ UNCHANGED <<disk, tick, kw, elapsed, batch, dlog, fslog, out, delivered, callbacks, op>>

\* the read finds no further event: event_stream_done notifies the worker
I_StreamDone ==
    /\ ipc = "reading"
    /\ kq = <<>>
    /\ Notify
    /\ ipc' = "poll"
    /\ UNCHANGED <<debvars, treevars, workervars, watches, waker, ifilter, kernelvars>>
    /\ UNCHANGED <<shared, has_notifications, notifications, shutdown, recrawls, cfilter,
                   handlers, registered, setf, retain>>
    /\ UNCHANGED <<batch, dlog, fslog, out, delivered, callbacks, arrived, op>>

\* -------------------------------------------------------------- the facade
\* Watcher::shutdown
A_Shutdown ==
    /\ ~shutdown
    /\ shutdown' = TRUE
    /\ waker' = TRUE
    /\ Notify
    /\ Arrives
    /\ UNCHANGED <<debvars, treevars, workervars, watches, ipc, ifilter, kernelvars>>
    /\ UNCHANGED <<shared, has_notifications, notifications, recrawls, cfilter, handlers, registered, setf, retain>>
    /\ UNCHANGED <<batch, dlog, fslog, out, delivered, callbacks, op>>

\* Watcher::add_root(path, recursive, callback): canonicalize fails for a path
\* that does not exist, and an ignored root is dropped
A_AddRoot(path, recursive) ==
    /\ ConfigFree
    /\ Len(notifications) + Len(callbacks) <= MaxAddRoot
    /\ disk[path].kind # "none"
    /\ ~ignore_path_rec(cfilter, path)
    /\ notifications' = Append(notifications, [path |-> path, recursive |-> recursive])
    /\ has_notifications' = TRUE
    /\ Notify
    /\ Arrives
    /\ UNCHANGED <<debvars, treevars, workervars, ingestorvars, kernelvars>>
    /\ UNCHANGED <<shared, shutdown, recrawls, cfilter, handlers, registered, setf, retain>>
    /\ UNCHANGED <<batch, dlog, fslog, out, delivered, callbacks, op>>

\* Watcher::add_root(path, recursive, callback) on a root that the filter
\* ignores: a warning is logged and Ok(()) is returned
A_AddRootIgnored(path, recursive) ==
    /\ ConfigFree
    /\ disk[path].kind # "none"
    /\ ignore_path_rec(cfilter, path)
    /\ op' = [kind |-> "add_root", path |-> path, recursive |-> recursive, ret |-> "Ok"]
    /\ UNCHANGED <<debvars, treevars, workervars, sharedvars, ingestorvars, kernelvars>>
    /\ UNCHANGED <<batch, dlog, fslog, out, delivered, callbacks, arrived>>

\* Watcher::add_handler(handler), made with the lock of the configuration: the
\* handler goes to the end of Config.handlers; keep is what its closure returns
A_AddHandler(keep) ==
    /\ ConfigFree
    /\ registered < MaxHandlers
    /\ handlers' = Append(handlers, [id |-> registered + 1, keep |-> keep])
    /\ registered' = registered + 1
    /\ UNCHANGED <<debvars, treevars, workervars, ingestorvars, kernelvars>>
    /\ UNCHANGED <<shared, notified, has_notifications, notifications, shutdown, recrawls,
                   cfilter, setf, retain>>
    /\ UNCHANGED histvars

\* the filters that set_filter installs, in the order in which they are set;
\* the first is the filter the watcher starts with
FilterSeq == <<DefaultFilter, {P_f}, {P_d}>>

\* the place of a filter in that order
Version(f) == CHOOSE v \in DOMAIN FilterSeq : FilterSeq[v] = f

\* Watcher::set_filter(f, recrawl) up to refresh_config: the filter is stored
\* with the lock of the configuration, and the ingestor is woken
A_SetFilter(f, recrawl) ==
    /\ setf.pc = "idle"
    /\ ConfigFree
    /\ Version(f) > Version(cfilter)
    /\ cfilter' = f
    /\ waker' = TRUE
    /\ setf' = [setf EXCEPT !.pc = IF recrawl THEN "recrawl" ELSE "idle", !.f = f]
    /\ UNCHANGED <<debvars, treevars, workervars, watches, ipc, ifilter, kernelvars>>
    /\ UNCHANGED <<shared, notified, has_notifications, notifications, shutdown, recrawls,
                   handlers, registered, retain>>
    /\ UNCHANGED histvars

\* the rest of Watcher::set_filter(f, true): changes.lock().recrawl(), made
\* with the lock of the queue, and changes.notify()
A_SetFilterRecrawl ==
    /\ setf.pc = "recrawl"
    /\ wpc # "checked"
    /\ shared' = PendingRecrawl(shared)
    /\ Notify
    /\ Arrives
    /\ setf' = [setf EXCEPT !.pc = "idle", !.asked = Version(setf.f)]
    /\ UNCHANGED <<debvars, treevars, workervars, ingestorvars, kernelvars>>
    /\ UNCHANGED <<has_notifications, notifications, shutdown, recrawls, cfilter, handlers,
                   registered, retain>>
    /\ UNCHANGED <<batch, dlog, fslog, out, delivered, callbacks, op>>

\* --------------------------------------------------------------- the worker
\* Config.settle_time as Watcher::new sets it, in milliseconds
SettleTime == 200

\* the tree, the debouncer and the watches as the worker's operations see them
Cur ==
    [nodes |-> nodes, dirs |-> dirs, path_table |-> path_table, deb |-> Deb,
     out |-> <<>>, calls |-> <<>>, watches |-> watches, kw |-> kw, panic |-> FALSE]

\* the worker's operation leaves S behind
Install(S) ==
    /\ nodes' = S.nodes
    /\ dirs' = S.dirs
    /\ path_table' = S.path_table
    /\ table' = S.deb.table
    /\ events' = S.deb.events
    /\ out' = S.out
    /\ watches' = S.watches
    /\ kw' = S.kw

\* Watcher::should_wakeup
should_wakeup == has_notifications \/ shutdown

\* the condition the worker waits on: |changes| changes.is_empty() && !exit()
WaitCondition == PendingIsEmpty(shared) /\ ~should_wakeup

\* a wait that stops as soon as the settle time has passed, whatever arrived
Mut_WaitOutcome_TimeoutFirst(condition, is_timed, time) ==
    IF is_timed /\ time >= SettleTime THEN "timed_out"
    ELSE IF ~condition THEN "taken"
    ELSE "wait"

\* one round of Condvar::wait_while / wait_timeout_while: the condition is
\* evaluated first, and only a condition that still holds lets the timeout end
\* the wait
WaitOutcome(condition, is_timed, time) ==
    IF ~condition THEN "taken"
    ELSE IF is_timed /\ time >= SettleTime THEN "timed_out"
    ELSE "wait"

\* a wait that hands the queue over by copying it instead of swapping
Mut_WaitRound_Copy(outcome) ==
    /\ shared' = shared
    /\ pending_changes' = IF outcome = "taken" THEN shared ELSE pending_changes
    /\ setteled' = IF outcome = "wait" THEN setteled ELSE outcome = "timed_out"
    /\ wpc' = IF outcome = "wait" THEN "checked" ELSE "woken"

\* what a round of the wait does to the worker: "taken" swaps the queues
WaitRound(outcome) ==
    /\ shared' = IF outcome = "taken" THEN pending_changes ELSE shared
    /\ pending_changes' = IF outcome = "taken" THEN shared ELSE pending_changes
    /\ setteled' = IF outcome = "wait" THEN setteled ELSE outcome = "timed_out"
    /\ wpc' = IF outcome = "wait" THEN "checked" ELSE "woken"

\* a worker that always waits without a timeout
Mut_SettleWait_Never == FALSE

\* the choice between take and take_timeout in Worker::wait_for_changes: the
\* wait is bounded by the settle time exactly when the debouncer holds events
SettleWait == ~DebIsEmpty(Deb)

\* Worker::wait_for_changes up to the first evaluation of the condition, made
\* with the queue's lock held
W_WaitBegin ==
    /\ wpc = "loop"
    /\ timed' = SettleWait
    /\ elapsed' = 0
    /\ arrived' = FALSE
    /\ WaitRound(WaitOutcome(WaitCondition, SettleWait, 0))
    /\ batch' = <<>>
    /\ out' = <<>>
    /\ op' = [kind |-> "wait"]
    /\ UNCHANGED <<debvars, treevars, roots, ingestorvars, disk, tick, kq, kw>>
    /\ UNCHANGED <<notified, has_notifications, notifications, shutdown, recrawls, cfilter,
                   handlers, registered, setf, retain>>
    /\ UNCHANGED <<dlog, fslog, delivered, callbacks>>

\* the worker is about to block without a timeout and nothing is on its way
\* to it: the kernel queue and the pending queue are empty
Idle ==
    /\ ~timed
    /\ kq = <<>> /\ ipc = "poll" /\ ~waker
    /\ PendingIsEmpty(shared) /\ ~should_wakeup

\* the tree knows path as the file that is on disk
KnownFile(path) ==
    /\ path \in DOMAIN path_table
    /\ disk[path].kind = "file"
    /\ nodes[path_table[path]].meta = MetaFile(disk[path].mtime, disk[path].size)
    /\ nodes[path_table[path]].inode = disk[path].inode

\* the log of an idle watcher: "file" for the files the tree knows
Baseline == [p \in Paths |-> IF KnownFile(p) THEN <<"file">> ELSE <<>>]

\* the worker releases the lock and blocks in the condition variable
W_Block ==
    /\ wpc = "checked"
    /\ wpc' = "blocked"
    /\ notified' = FALSE
    /\ UNCHANGED <<debvars, treevars, pending_changes, roots, setteled, timed>>
    /\ UNCHANGED <<shared, has_notifications, notifications, shutdown, recrawls, cfilter,
                   handlers, registered, setf, retain>>
    /\ fslog' = IF Idle THEN Baseline ELSE fslog
    /\ UNCHANGED <<ingestorvars, kernelvars, batch, dlog, out, delivered, callbacks, arrived, op>>

\* the worker is woken, by a notification or by the timeout, takes the lock
\* and goes through the next round of the wait
W_Wake ==
    /\ wpc = "blocked"
    /\ notified \/ (timed /\ elapsed >= SettleTime)
    /\ notified' = FALSE
    /\ WaitRound(WaitOutcome(WaitCondition, timed, elapsed))
    /\ UNCHANGED <<debvars, treevars, roots, timed, ingestorvars, kernelvars>>
    /\ UNCHANGED <<has_notifications, notifications, shutdown, recrawls, cfilter, handlers, registered, setf, retain>>
    /\ UNCHANGED <<batch, dlog, fslog, out, delivered, callbacks, arrived, op>>

\* time passes while the worker is in a timed wait
E_Tick ==
    /\ wpc \in {"checked", "blocked"}
    /\ timed
    /\ elapsed < SettleTime
    /\ elapsed' = elapsed + Quantum
    /\ UNCHANGED <<debvars, treevars, workervars, sharedvars, ingestorvars, disk, tick, kq, kw>>
    /\ UNCHANGED <<batch, dlog, fslog, out, delivered, callbacks, arrived, op>>

\* Worker::run after wait_for_changes: if self.watcher.notify.is_shutdown() { break }
W_CheckShutdown ==
    /\ wpc = "woken"
    /\ wpc' = IF shutdown THEN "exited" ELSE "notifications"
    /\ UNCHANGED <<debvars, treevars, pending_changes, roots, setteled, timed>>
    /\ UNCHANGED <<sharedvars, ingestorvars, kernelvars>>
    /\ UNCHANGED <<batch, dlog, fslog, out, delivered, callbacks, arrived, op>>

RECURSIVE BinarySearch(_, _, _, _)
\* the loop of slice::binary_search_by behind partition_point, on 0-based
\* indices: the comparison is Less where the predicate holds, else Greater
BinarySearch(S, list, path, st) ==
    LET pred(k) == PathCmp(S.nodes[list[k + 1].node].path, path) = Less
    IN  IF st.size > 1
        THEN LET half == st.size \div 2
                 mid == st.base + half
             IN  BinarySearch(S, list, path,
                              [base |-> IF pred(mid) THEN mid ELSE st.base,
                               size |-> st.size - half])
        ELSE st.base + (IF pred(st.base) THEN 1 ELSE 0)

\* self.roots.partition_point(|&(it, _)| self.tree[it].path < root.path)
partition_point(S, list, path) ==
    IF list = <<>> THEN 0 ELSE BinarySearch(S, list, path, [base |-> 0, size |-> Len(list)])

\* a worker that crawls the root and does not enter it in the root list
Mut_InsertRoot_Skip(S, list, node, path, recursive) == [panic |-> FALSE, list |-> list]

\* the new root list of process_notifications; the splice panics when its
\* range is not a range of the list
InsertRoot(S, list, node, path, recursive) ==
    LET i == partition_point(S, list, path)
        rest == SubSeq(list, i + 1, Len(list))
        stop == {k \in 1..Len(rest) : ~is_parent_of(path, S.nodes[rest[k].node].path)}
        end == IF stop = {} THEN Len(list)
               ELSE (CHOOSE k \in stop : \A j \in stop : k <= j) - 1
        new == <<[node |-> node, recursive |-> recursive]>>
    IN  IF recursive
        THEN IF i > end THEN [panic |-> TRUE, list |-> list]
             ELSE [panic |-> FALSE,
                   list |-> SubSeq(list, 1, i) \o new \o SubSeq(list, end + 1, Len(list))]
        ELSE [panic |-> FALSE, list |-> SubSeq(list, 1, i) \o new \o rest]

RECURSIVE NotificationLoop(_, _, _, _)
\* the loop of Worker::process_notifications over the taken add-root requests;
\* W is the tree state, the root list, the callbacks invoked and the time
NotificationLoop(W, fs, filter, todo) ==
    IF todo = <<>> \/ W.s.panic THEN W
    ELSE LET root == Head(todo)
             watched == for_path(fs, root.path).some /\ fs[root.path].kind = "dir"
             \* (root.notify)(ok), with what the callback can see of the worker:
             \* the node add_root returned, the tree S and the root list
             called(ok, node, S, list) ==
                 Append(W.callbacks,
                        [path |-> root.path, recursive |-> root.recursive, ok |-> ok,
                         at |-> W.now, node |-> node,
                         nodes |-> Len(S.nodes),
                         roots |-> [k \in DOMAIN list |-> S.nodes[list[k].node].path]])
             \* S1 is the tree after crawl_root, ins the root list after the insertion
             Inserted(r, S1, ins) ==
                 IF ins.panic
                 THEN [W EXCEPT !.s = [S1 EXCEPT !.panic = TRUE]]
                 ELSE NotificationLoop([s |-> S1, roots |-> ins.list,
                                        callbacks |-> called(TRUE, r.node, S1, ins.list),
                                        now |-> W.now],
                                       fs, filter, Tail(todo))
             Crawled(r, S1) ==
                 Inserted(r, S1, InsertRoot(S1, W.roots, r.node, root.path, root.recursive))
             \* r is what add_root returned
             Added(r) ==
                 IF r.node = NONE
                 THEN NotificationLoop([W EXCEPT !.callbacks = called(TRUE, NONE, W.s, W.roots)],
                                       fs, filter, Tail(todo))
                 ELSE IF ~watched
                 THEN NotificationLoop([W EXCEPT !.s = r.s,
                                                 !.callbacks = called(FALSE, r.node, r.s, W.roots)],
                                       fs, filter, Tail(todo))
                 ELSE Crawled(r, crawl_root(add_watch(r.s, fs, root.path), fs, filter,
                                            r.node, root.recursive))
         IN  Added(add_root(W.s, fs, root.path, root.recursive))

\* Worker::process_notifications
W_ProcessNotifications ==
    /\ wpc = "notifications"
    /\ has_notifications' = FALSE
    /\ notifications' = IF has_notifications THEN <<>> ELSE notifications
    /\ LET Done(W) ==
               /\ Install(W.s)
               /\ roots' = W.roots
               /\ callbacks' = W.callbacks
               /\ wpc' = IF W.s.panic THEN "panicked" ELSE "dispatch"
       IN  Done(NotificationLoop([s |-> Cur, roots |-> roots, callbacks |-> callbacks,
                                  now |-> tick],
                                 disk, cfilter,
                                 IF has_notifications THEN notifications ELSE <<>>))
    /\ op' = [kind |-> "process_notifications"]
    /\ UNCHANGED <<pending_changes, setteled, timed, waker, ipc, ifilter>>
    /\ UNCHANGED <<shared, notified, shutdown, recrawls, cfilter, handlers, registered, setf, retain>>
    /\ UNCHANGED <<disk, tick, kq, elapsed, batch, dlog, fslog, delivered, arrived>>

RECURSIVE Deliver(_, _)
\* the kinds of the events of a batch, appended per path to what the handlers
\* have received
Deliver(d, b) ==
    IF b = <<>> THEN d
    ELSE Deliver([d EXCEPT ![Head(b).path] = Append(@, Head(b).ty)], Tail(b))

RECURSIVE RetainLoop(_, _, _, _)
\* the loop of Vec::retain_mut over the handlers hs from index i: the closure
\* of worker.rs calls the handler with a clone of the batch b, and the handler
\* is kept when it returns true
RetainLoop(hs, i, b, acc) ==
    IF i > Len(hs) THEN acc
    ELSE RetainLoop(hs, i + 1, b,
            [kept |-> IF hs[i].keep THEN Append(acc.kept, hs[i]) ELSE acc.kept,
             calls |-> Append(acc.calls, [id |-> hs[i].id, batch |-> b])])

\* the same loop, losing its place after a removal: the handler that follows
\* a removed one is kept without being called
Mut_retain_mut_SkipAfterRemove(hs, b) ==
    LET RECURSIVE L(_, _)
        L(i, acc) ==
            IF i > Len(hs) THEN acc
            ELSE IF hs[i].keep \/ i = Len(hs)
                 THEN L(i + 1, [kept |-> IF hs[i].keep THEN Append(acc.kept, hs[i]) ELSE acc.kept,
                                calls |-> Append(acc.calls, [id |-> hs[i].id, batch |-> b])])
                 ELSE L(i + 2, [kept |-> Append(acc.kept, hs[i + 1]),
                                calls |-> Append(acc.calls, [id |-> hs[i].id, batch |-> b])])
    IN  L(1, [kept |-> <<>>, calls |-> <<>>])

\* handlers.retain_mut(|handler| handler(events.clone())): the handlers that
\* stay, and the calls made, in order
retain_mut(hs, b) == RetainLoop(hs, 1, b, [kept |-> <<>>, calls |-> <<>>])

\* the settled branch of Worker::run: the debouncer's batch goes to every
\* handler, and a handler that returns false is dropped
W_Flush ==
    /\ wpc = "dispatch"
    /\ setteled
    /\ batch' = DebTakeBatch(Deb)
    /\ table' = <<>>
    /\ events' = <<>>
    /\ handlers' = retain_mut(handlers, DebTakeBatch(Deb)).kept
    /\ delivered' = IF handlers # <<>> THEN Deliver(delivered, DebTakeBatch(Deb)) ELSE delivered
    /\ wpc' = "loop"
    /\ op' = [kind |-> "flush", calls |-> retain_mut(handlers, DebTakeBatch(Deb)).calls]
    /\ UNCHANGED <<treevars, pending_changes, roots, setteled, timed, ingestorvars, kernelvars>>
    /\ UNCHANGED <<shared, notified, has_notifications, notifications, shutdown, recrawls,
                   cfilter, registered, setf, retain>>
    /\ fslog' = [p \in Paths |-> IF fslog[p] = <<>> THEN <<>> ELSE Append(fslog[p], "flush")]
    /\ UNCHANGED <<dlog, out, callbacks, arrived>>

\* ---- the settled branch of Worker::run, one step per call of a handler
\* let events = self.events.take(); self.watcher.state.config.lock()
W_Settle ==
    /\ wpc = "dispatch"
    /\ setteled
    /\ batch' = DebTakeBatch(Deb)
    /\ table' = <<>>
    /\ events' = <<>>
    /\ retain' = [retain EXCEPT !.i = 1, !.kept = <<>>, !.calls = <<>>, !.n = @ + 1]
    /\ wpc' = "retain"
    /\ op' = [kind |-> "settle"]
    /\ UNCHANGED <<treevars, pending_changes, roots, setteled, timed, ingestorvars, kernelvars>>
    /\ UNCHANGED <<shared, notified, has_notifications, notifications, shutdown, recrawls,
                   cfilter, handlers, registered, setf>>
    /\ UNCHANGED <<dlog, fslog, out, delivered, callbacks, arrived>>

\* retain_mut calls the handler at its cursor with a clone of the batch
W_Call ==
    /\ wpc = "retain"
    /\ retain.i \in 1..Len(handlers)
    /\ retain.running = <<>>
    /\ LET id == handlers[retain.i].id
       IN  retain' = [retain EXCEPT !.running = Append(@, id),
                                    !.calls = Append(@, [id |-> id, batch |-> batch]),
                                    !.last[id] = retain.n]
    /\ UNCHANGED <<debvars, treevars, workervars, ingestorvars, kernelvars>>
    /\ UNCHANGED <<shared, notified, has_notifications, notifications, shutdown, recrawls,
                   cfilter, handlers, registered, setf>>
    /\ UNCHANGED histvars

\* retain_mut's cursor after the handler h returned: a handler that returned
\* false is dropped, and the loop goes on with the next handler
Mut_RetainNext_Again(r, h) ==
    [r EXCEPT !.i = IF h.keep THEN r.i + 1 ELSE r.i,
              !.kept = IF h.keep THEN Append(@, h) ELSE @,
              !.running = <<>>]

RetainNext(r, h) ==
    [r EXCEPT !.i = r.i + 1,
              !.kept = IF h.keep THEN Append(@, h) ELSE @,
              !.running = <<>>]

\* the handler returns
W_Return ==
    /\ wpc = "retain"
    /\ retain.running # <<>>
    /\ retain' = RetainNext(retain, handlers[retain.i])
    /\ UNCHANGED <<debvars, treevars, workervars, ingestorvars, kernelvars>>
    /\ UNCHANGED <<shared, notified, has_notifications, notifications, shutdown, recrawls,
                   cfilter, handlers, registered, setf>>
    /\ UNCHANGED histvars

\* retain_mut is done: the kept handlers stay, the lock is released, continue
W_Unlock ==
    /\ wpc = "retain"
    /\ retain.i > Len(handlers)
    /\ handlers' = retain.kept
    /\ retain' = [retain EXCEPT !.i = 0, !.kept = <<>>, !.calls = <<>>]
    /\ delivered' = IF handlers # <<>> THEN Deliver(delivered, batch) ELSE delivered
    /\ wpc' = "loop"
    /\ op' = [kind |-> "flush", calls |-> retain.calls]
    /\ UNCHANGED <<debvars, treevars, pending_changes, roots, setteled, timed, ingestorvars,
                   kernelvars>>
    /\ UNCHANGED <<shared, notified, has_notifications, notifications, shutdown, recrawls,
                   cfilter, registered, setf>>
    /\ fslog' = [p \in Paths |-> IF fslog[p] = <<>> THEN <<>> ELSE Append(fslog[p], "flush")]
    /\ UNCHANGED <<batch, dlog, out, callbacks, arrived>>

\* a worker that keeps the filter it was started with
Mut_LoopFilter_Stale == DefaultFilter

\* let filter = self.watcher.state.config.lock().unwrap().filter.clone(), made
\* in every iteration of Worker::run after the wait
LoopFilter == cfilter

RECURSIVE RecrawlLoop(_, _, _, _, _)
\* for &(root, _) in &self.roots { self.tree.crawl(root, ...) }
RecrawlLoop(S, fs, filter, list, i) ==
    IF i > Len(list) \/ S.panic THEN S
    ELSE RecrawlLoop(crawl(S, fs, filter, list[i].node), fs, filter, list, i + 1)

\* the recrawl branch of Worker::run
W_Recrawl ==
    /\ wpc = "dispatch"
    /\ ~setteled
    /\ pending_changes.recrawl
    /\ pending_changes' = [pending_changes EXCEPT !.recrawl = FALSE]
    /\ recrawls' = recrawls + 1
    /\ LET Done(S) ==
               /\ Install(S)
               /\ wpc' = IF S.panic THEN "panicked" ELSE "loop"
       IN  Done(RecrawlLoop(Cur, disk, LoopFilter, roots, 1))
    /\ op' = [kind |-> "recrawl", roots |-> roots, filter |-> LoopFilter]
    /\ UNCHANGED <<roots, setteled, timed, waker, ipc, ifilter>>
    /\ UNCHANGED <<shared, notified, has_notifications, notifications, shutdown, cfilter,
                   handlers, registered, setf, retain>>
    /\ UNCHANGED <<disk, tick, kq, elapsed, batch, dlog, fslog, delivered, callbacks, arrived>>

\* the last branch of Worker::run: the taken changes are applied to the tree
W_Transaction ==
    /\ wpc = "dispatch"
    /\ ~setteled
    /\ ~pending_changes.recrawl
    /\ pending_changes' = NewPending
    /\ LET Done(S) ==
               /\ Install(S)
               /\ wpc' = IF S.panic THEN "panicked" ELSE "loop"
       IN  Done(apply_transaction(Cur, disk, cfilter, pending_changes))
    /\ op' = [kind |-> "transaction", changes |-> PendingDrain(pending_changes)]
    /\ UNCHANGED <<roots, setteled, timed, waker, ipc, ifilter>>
    /\ UNCHANGED <<sharedvars, disk, tick, kq, elapsed>>
    /\ UNCHANGED <<batch, dlog, fslog, delivered, callbacks, arrived>>

\* ------------------------------------------------------ the running watcher
\* the inode numbers of what is on disk when the watcher starts; what is
\* created later gets its number from the clock
InitialInode(p) ==
    CASE p = P_r -> 11
      [] p = P_d -> 12
      [] p = P_f -> 13
      [] p = P_de -> 14
      [] p = P_df -> 15

\* The disk when the watcher starts: the directory /r, and of the other paths
\* those in present, all last modified at time 1
InitialDisk(present) ==
    [p \in Paths |->
        IF p = P_r \/ p \in present
        THEN [kind |-> IF p \in FilePaths THEN "file" ELSE "dir",
              inode |-> InitialInode(p), mtime |-> 1, size |-> 1]
        ELSE NoEntry]

\* Watcher::new, add_handler, add_root("/r", recursive) and start have been
\* called
StartedOn(fs, filter) ==
    /\ table = <<>> /\ events = <<>>
    /\ nodes = <<>> /\ dirs = <<>> /\ path_table = <<>>
    /\ pending_changes = NewPending /\ roots = <<>>
    /\ wpc = "loop" /\ setteled = FALSE /\ timed = FALSE
    /\ shared = NewPending /\ notified = FALSE
    /\ has_notifications = TRUE
    /\ notifications = <<[path |-> P_r, recursive |-> TRUE]>>
    /\ shutdown = FALSE /\ recrawls = 0
    /\ cfilter = filter /\ handlers = <<[id |-> 1, keep |-> TRUE]>> /\ registered = 1
    /\ setf = NoSetFilter /\ retain = NoRetain
    /\ watches = <<>> /\ waker = FALSE /\ ipc = "poll" /\ ifilter = filter
    /\ disk = fs
    /\ tick = 1 /\ kq = <<>> /\ kw = {}
    /\ elapsed = 0
    /\ batch = <<>> /\ dlog = NoLog /\ fslog = NoLog /\ out = <<>> /\ delivered = NoDelivered
    /\ callbacks = <<>> /\ arrived = FALSE
    /\ op = [kind |-> "init"]

\* the watcher with the default filter, started on a root that holds present
Started(present) == StartedOn(InitialDisk(present), DefaultFilter)

\* the watcher is started on a root that is empty or holds the file /r/f
Init == \E present \in {{}, {P_f}} : Started(present)

WorkerNext ==
    \/ W_WaitBegin
    \/ W_Block
    \/ W_Wake
    \/ W_CheckShutdown
    \/ W_ProcessNotifications
    \/ W_Flush
    \/ W_Recrawl
    \/ W_Transaction

IngestorNext ==
    \/ I_Poll
    \/ I_HandleEvent
    \/ I_StreamDone

DiskNext ==
    \/ \E p \in DirPaths : E_MkDir(p, 1)
    \/ \E p \in FilePaths : E_Create(p)
    \/ \E p \in FilePaths : E_Write(p)
    \/ \E p \in DirPaths \cup FilePaths : E_Remove(p)

Next ==
    \/ WorkerNext
    \/ IngestorNext
    \/ E_Tick
    \/ DiskNext

\* the running watcher and a disk on which files and directories come and go
Spec == Init /\ [][Next]_vars

\* the callers of the watcher act, and one file comes and goes
ControlNext ==
    \/ WorkerNext
    \/ IngestorNext
    \/ E_Tick
    \/ E_Create(P_f)
    \/ E_Remove(P_f)
    \/ A_Shutdown
    \/ \E recursive \in BOOLEAN : A_AddRoot(P_r, recursive)

\* the steps of the worker that do not walk the tree
WorkerLight ==
    \/ W_WaitBegin
    \/ W_Block
    \/ W_Wake
    \/ W_CheckShutdown
    \/ W_Flush

\* The threads keep running and time keeps passing; nothing obliges the
\* callers of the watcher or the users of the disk to act.  The steps of the
\* worker that walk the tree (process_notifications, the recrawl and the
\* transaction) are enabled exactly where the worker stands before them and
\* always move it on, so weak fairness of these steps is the statement that
\* the worker does not stand there forever.
Fairness ==
    /\ WF_vars(WorkerLight)
    /\ []<>(wpc # "notifications")
    /\ []<>(~(wpc = "dispatch" /\ ~setteled))
    /\ WF_vars(IngestorNext)
    /\ WF_vars(E_Tick)

\* the running watcher, its callers, and threads that are scheduled fairly
FairSpec == Started({}) /\ [][ControlNext]_vars /\ Fairness

\* the worker has ended with a panic
Panicked == wpc = "panicked"

\* C5: events held by the debouncer are, unless the watcher is shut down,
\* eventually delivered: the flush hands the whole debouncer content to the
\* handlers as one batch and leaves the debouncer empty, and the wait that
\* follows the flush has no timeout.
C5_EventuallyDelivered ==
    /\ (events # <<>>) ~> (shutdown \/ (op.kind = "flush" /\ events = <<>> /\ batch # <<>>))
    /\ [][/\ op'.kind = "flush" /\ op.kind # "flush" => batch' = events /\ events' = <<>>
          /\ op.kind = "flush" /\ op'.kind = "wait" => ~timed'
         ]_vars

\* a batch was delivered and the worker is blocked in a wait without timeout
C5_Witness ==
    /\ delivered[P_f] = <<Create>>
    /\ events = <<>>
    /\ wpc = "blocked" /\ ~timed

\* C6: once shutdown() was called, the worker and the ingestor both end.
C6_ShutdownEndsThreads == shutdown ~> (wpc = "exited" /\ ipc = "exited")

\* C4: the handlers are invoked only right after a wait that began with a
\* non-empty debouncer (a timed wait) and in which the whole settle time went
\* by with nothing arriving; a wait in which something arrived ends unsettled,
\* and the wait that follows starts its settle time anew.
C4_FlushOnlyWhenSettled ==
    [][/\ (op'.kind = "flush" /\ op.kind # "flush") =>
              (setteled /\ timed /\ elapsed >= SettleTime /\ ~arrived)
       /\ (wpc \in {"checked", "blocked"} /\ wpc' = "woken" /\ arrived) => ~setteled'
       /\ (op'.kind = "wait" /\ op.kind # "wait") => elapsed' = 0
      ]_vars

\* a batch was handed to the handlers after a settle time in which the worker
\* was woken without anything having arrived
C4_Witness ==
    /\ op.kind = "flush"
    /\ batch # <<>>
    /\ elapsed = SettleTime
    /\ ~arrived
    /\ ipc = "poll" /\ kq = <<>>

\* nothing is left to do: the kernel queue and the pending queue are empty,
\* the ingestor polls, and the worker is blocked in a wait without timeout
\* with an empty debouncer
Quiescent ==
    /\ kq = <<>> /\ ipc = "poll" /\ ~waker
    /\ PendingIsEmpty(shared) /\ ~should_wakeup
    /\ wpc = "blocked" /\ ~timed /\ ~notified
    /\ events = <<>>

\* the kind of the last event the handlers received for path, "none" if none
LastDelivered(path) ==
    IF delivered[path] = <<>> THEN "none" ELSE delivered[path][Len(delivered[path])]

\* the file was created or written to after the callback of the first
\* add_root reported the root as crawled
Touched(path) ==
    /\ disk[path].kind = "file"
    /\ callbacks # <<>>
    /\ disk[path].mtime > callbacks[1].at

\* C7 (its last part): once everything is processed after a queue overflow, a
\* file that was created or modified while the watcher ran has had its Create
\* or Modified delivered: the last event the handlers got for it is one of
\* the two.
C7_FileEventAfterOverflow ==
    (Quiescent /\ recrawls > 0) =>
        \A p \in FilePaths : Touched(p) => LastDelivered(p) \in {Create, Modified}

\* the kinds of the events of a batch that are for path, in order
KindsFor(b, path) ==
    LET mine == SelectSeq(b, LAMBDA e : e.path = path)
    IN  [i \in 1..Len(mine) |-> mine[i].ty]

\* every kernel event and every pending change has reached the tree
AllProcessed ==
    /\ kq = <<>> /\ ipc = "poll"
    /\ PendingIsEmpty(shared) /\ PendingIsEmpty(pending_changes)

\* C10: a file the idle watcher knew was removed and created again, both were
\* processed before the settle time ran out, and nothing was delivered in
\* between: the batch holds exactly one event for the path, a Modified.
C10_RemoveCreateIsModified ==
    (op.kind = "flush" /\ AllProcessed) =>
        \A p \in FilePaths :
            fslog[p] = <<"file", "rm", "mk", "flush">> => KindsFor(batch, p) = <<Modified>>
\* directories and files are created, and nothing else happens to the disk
CreateNext ==
    \/ WorkerNext
    \/ IngestorNext
    \/ E_Tick
    \/ \E p \in DirPaths : E_MkDir(p, 1)
    \/ \E p \in FilePaths : E_Create(p)

\* the running watcher, scheduled fairly, over a disk that only grows
FairCreate == Started({}) /\ [][CreateNext]_vars /\ Fairness

\* how many Create events the handlers have received for path
CreateCount(path) ==
    Cardinality({i \in DOMAIN delivered[path] : delivered[path][i] = Create})

\* C8: a regular file created under the recursively watched root, also in a
\* directory that was itself created after the root was added, gets exactly
\* one Create event delivered: eventually one, and never a second; and the
\* handlers never receive an event for a directory.
C8_NewFileOneCreate ==
    /\ \A p \in FilePaths : Touched(p) ~> (CreateCount(p) = 1)
    /\ [](\A p \in FilePaths : CreateCount(p) <= 1)
    /\ [](\A p \in DirPaths \cup {P_r} : delivered[p] = <<>>)

C8_Witness ==
    /\ Touched(P_df) /\ disk[P_d].mtime > callbacks[1].at
    /\ delivered[P_df] = <<Create>>
    /\ delivered[P_d] = <<>>
    /\ Quiescent
\* ------------------------------------------ the tree driven one call at a time
\* the tree as an operation finds it when the debouncer was flushed before
TreeCur == [Cur EXCEPT !.deb = NewDebouncer]

\* Worker::process_notifications on the add-root request made before start
T_AddRoot ==
    /\ has_notifications
    /\ has_notifications' = FALSE
    /\ notifications' = <<>>
    /\ LET Done(W) ==
               /\ Install(W.s)
               /\ roots' = W.roots
               /\ callbacks' = W.callbacks
       IN  Done(NotificationLoop([s |-> TreeCur, roots |-> roots, callbacks |-> callbacks,
                                  now |-> tick],
                                 disk, cfilter, notifications))
    /\ op' = [kind |-> "process_notifications"]
    /\ UNCHANGED <<pending_changes, wpc, setteled, timed, waker, ipc, ifilter>>
    /\ UNCHANGED <<shared, notified, shutdown, recrawls, cfilter, handlers, registered, setf, retain>>
    /\ UNCHANGED <<disk, tick, kq, elapsed, batch, dlog, fslog, delivered, arrived>>

\* FileTree::crawl on every root, as the recrawl branch of Worker::run calls it
T_Crawl ==
    /\ ~has_notifications
    /\ LET Done(S) ==
               /\ Install(S)
               /\ op' = [kind |-> "recrawl", roots |-> roots, filter |-> LoopFilter,
                         panic |-> S.panic, disk |-> disk,
                         \* the step before this crawl that was not one of the
                         \* environment was a crawl of the same roots, and the
                         \* disk is as that crawl saw it
                         again |-> /\ op.kind = "recrawl" /\ "disk" \in DOMAIN op
                                   /\ op.disk = disk
                                   /\ op.filter = LoopFilter
                                   /\ ~op.panic]
       IN  Done(RecrawlLoop(TreeCur, disk, LoopFilter, roots, 1))
    /\ UNCHANGED <<pending_changes, roots, wpc, setteled, timed, waker, ipc, ifilter>>
    /\ UNCHANGED <<sharedvars, disk, tick, kq, elapsed>>
    /\ UNCHANGED <<batch, dlog, fslog, delivered, callbacks, arrived>>

\* FileTree::apply_transaction on the one change the ingestor queues when the
\* kernel reports that path was created or deleted
T_Change(path) ==
    /\ ~has_notifications
    /\ LET transaction == PendingAddWatcher(NewPending, path, {NEEDS_RECURSIVE_CRAWL})
       IN  /\ Install(apply_transaction(TreeCur, disk, cfilter, transaction))
           /\ op' = [kind |-> "transaction", changes |-> PendingDrain(transaction)]
    /\ UNCHANGED <<pending_changes, roots, wpc, setteled, timed, waker, ipc, ifilter>>
    /\ UNCHANGED <<sharedvars, disk, tick, kq, elapsed>>
    /\ UNCHANGED <<batch, dlog, fslog, delivered, callbacks, arrived>>

\* the root holds a directory with a file, and possibly more, when it is added
TreeInit == \E present \in {{P_d, P_df}, {P_d, P_df, P_de}, {P_f, P_d, P_de}} : Started(present)

TreeNext ==
    \/ T_AddRoot
    \/ T_Crawl
    \/ \E path \in Paths : T_Change(path)
    \/ DiskNext

\* the tree, called directly, over a disk on which files and directories come
\* and go
SpecTree == TreeInit /\ [][TreeNext]_vars

\* the nodes of the tree strictly beneath node n
Descendants(n) == {m \in DOMAIN nodes : is_parent_of(nodes[n].path, nodes[m].path)}

\* node n is a directory to the tree and is gone from the disk
Disappeared(n) == nodes[n].meta.k = "Dir" /\ disk[nodes[n].path].kind = "none"

\* the step is an operation of the tree that comes across node n: a change
\* reported for its path, or a crawl of a root above it
Discovers(n) ==
    /\ op' # op \/ out' # out \/ nodes' # nodes
    /\ \/ /\ op'.kind = "transaction"
          /\ op'.changes[1].path = nodes[n].path
       \/ /\ op'.kind = "recrawl"
          /\ \E i \in DOMAIN roots : is_parent_of(nodes[roots[i].node].path, nodes[n].path)

\* the paths of the events the operation of the step emitted, of type ty
Emitted(ty) == {out'[i].path : i \in {j \in DOMAIN out' : out'[j].ty = ty}}

\* C9: when an operation of the tree finds that a directory it knows is gone,
\* be it apply_change on the directory or a crawl, it emits Delete for every
\* file beneath the directory, leaves the directory and everything beneath it
\* with metadata Deleted, and emits no event for the directory or for a
\* directory beneath it.
C9_DirectoryDisappears ==
    [][\A n \in DOMAIN nodes :
          (Disappeared(n) /\ Discovers(n)) =>
              /\ \A m \in Descendants(n) :
                    nodes[m].meta.k = "File" => nodes[m].path \in Emitted(Delete)
              /\ \A m \in Descendants(n) \cup {n} : nodes'[m].meta = MetaDeleted
              /\ \A m \in Descendants(n) \cup {n} :
                    nodes[m].meta.k = "Dir" =>
                        \A i \in DOMAIN out' : out'[i].path # nodes[m].path
      ]_vars
\* ------------------------------------------------- the initial crawl of a root
\* what a path can be on disk
Kinds == {"none", "file", "dir", "other"}

\* the entry of kind k at path p of the disk the watcher is started on
EntryOf(p, k) ==
    IF k = "none" THEN NoEntry
    ELSE [kind |-> k, inode |-> InitialInode(p), mtime |-> 1, size |-> 1]

\* the disks the root is added on: /r is a directory, /r/d and /r/d/e are
\* anything, /r/f and /r/d/f are files or something that is no directory, and
\* only a directory has entries
CrawlDisks ==
    {[p \in Paths |-> EntryOf(p, IF p = P_r THEN "dir" ELSE k[p])] :
        k \in {c \in [Paths \ {P_r} -> Kinds] :
                  /\ c[P_f] # "dir" /\ c[P_df] # "dir"
                  /\ (c[P_d] # "dir" => (c[P_de] = "none" /\ c[P_df] = "none"))}}

\* the filters set before the root is added
CrawlFilters == {{}, {P_d}, {P_df}}

CrawlInit == \E fs \in CrawlDisks, filter \in CrawlFilters : StartedOn(fs, filter)

\* add_root("/r", recursive = true) on a disk and under a filter of any kind
SpecCrawlRoot == CrawlInit /\ [][T_AddRoot]_vars

\* the paths for which the tree holds a node that is a file
FileNodes == {nodes[i].path : i \in {j \in DOMAIN nodes : nodes[j].meta.k = "File"}}

\* the filter ignores path or a directory between the root and path
IgnoredBelow(root, path) ==
    \E q \in Paths :
        /\ (q = path \/ is_parent_of(q, path))
        /\ is_parent_of(root, q)
        /\ ignore_path(cfilter, q)

\* the regular files under root that the filter does not ignore
RegularFilesUnder(root) ==
    {p \in Paths : /\ is_parent_of(root, p)
                   /\ disk[p].kind = "file"
                   /\ ~IgnoredBelow(root, p)}

\* C11: once the initial crawl of add_root("/r", recursive = true) is done,
\* the files the tree holds are exactly the regular files under /r that the
\* filter does not ignore, whatever else lies next to them.
C11_CrawlRootFindsFiles ==
    op.kind = "process_notifications" => FileNodes = RegularFilesUnder(P_r)
\* ------------------------------------------------------------ the handlers
\* handlers are registered while the watcher runs and one file comes and goes
HandlersNext ==
    \/ WorkerNext
    \/ IngestorNext
    \/ E_Tick
    \/ E_Create(P_f)
    \/ E_Remove(P_f)
    \/ \E keep \in BOOLEAN : A_AddHandler(keep)

SpecHandlers == Started({}) /\ [][HandlersNext]_vars

\* the step is a settled flush
Flushed == op'.kind = "flush" /\ op.kind # "flush"

\* C12: a settled flush calls every handler registered at that moment exactly
\* once, in registration order and with the batch of that flush; it removes the
\* handlers that returned false and keeps the others in order; and a handler
\* that is gone never comes back, as new handlers get new identities.
C12_FlushCallsEachHandlerOnce ==
    [][/\ Flushed =>
            /\ op'.calls = [i \in 1..Len(handlers) |-> [id |-> handlers[i].id, batch |-> batch']]
            /\ handlers' = SelectSeq(handlers, LAMBDA h : h.keep)
       /\ \A i \in DOMAIN handlers' :
            \/ \E j \in DOMAIN handlers : handlers[j] = handlers'[i]
            \/ handlers'[i].id > registered]_vars

\* a flush with a non-empty batch called two handlers or more and removed one,
\* and a handler registered before one of them was not called any more
C12_Witness ==
    /\ op.kind = "flush"
    /\ batch # <<>>
    /\ Len(op.calls) >= 2
    /\ handlers # <<>>
    /\ Len(handlers) < Len(op.calls)
    /\ \E id \in 1..registered :
            /\ \A i \in DOMAIN op.calls : op.calls[i].id # id
            /\ \E i \in DOMAIN op.calls : op.calls[i].id > id
\* ------------------------------------- the handlers and the other threads
\* the worker with the calls of the handlers as steps of their own
WorkerSteps ==
    \/ W_WaitBegin
    \/ W_Block
    \/ W_Wake
    \/ W_CheckShutdown
    \/ W_ProcessNotifications
    \/ W_Settle
    \/ W_Call
    \/ W_Return
    \/ W_Unlock
    \/ W_Recrawl
    \/ W_Transaction

\* other threads call add_handler, set_filter and add_root at any moment
CallersNext ==
    \/ WorkerSteps
    \/ IngestorNext
    \/ E_Tick
    \/ E_Create(P_f)
    \/ \E keep \in BOOLEAN : A_AddHandler(keep)
    \/ \E v \in DOMAIN FilterSeq, recrawl \in BOOLEAN : A_SetFilter(FilterSeq[v], recrawl)
    \/ A_SetFilterRecrawl
    \/ \E recursive \in BOOLEAN : A_AddRoot(P_r, recursive)

SpecCallers == Started({}) /\ [][CallersNext]_vars

\* C13: no handler is in two calls at once, and the batches a handler gets
\* come in the order in which they were taken from the debouncer: each call
\* hands the handler the batch taken last, which it has not had before -
\* whatever add_handler, set_filter and add_root calls other threads make
\* meanwhile.
C13_HandlerCallsAreSerial ==
    /\ [](\A i, j \in DOMAIN retain.running :
            retain.running[i] = retain.running[j] => i = j)
    /\ [][Len(retain'.calls) = Len(retain.calls) + 1 =>
            LET call == retain'.calls[Len(retain'.calls)]
            IN  /\ retain.last[call.id] < retain.n
                /\ retain'.last[call.id] = retain.n
                /\ call.batch = batch]_vars
    /\ [][\A id \in 1..MaxHandlers :
            retain'.last[id] # retain.last[id] =>
                Len(retain'.calls) = Len(retain.calls) + 1]_vars

\* a handler is in the call for its second batch, while a thread is between
\* the two halves of set_filter, a handler was added since the first batch and
\* an add_root request waits for the worker
C13_Witness ==
    /\ retain.running # <<>>
    /\ retain.n >= 2
    /\ \E id \in 1..MaxHandlers : retain.running[1] = id /\ retain.last[id] = 2
    /\ setf.pc = "recrawl"
    /\ registered >= 2
    /\ Len(notifications) > 0
\* -------------------------------------------------- the add-root callbacks
\* the step is a run of Worker::process_notifications
Processed == wpc = "notifications" /\ op'.kind = "process_notifications"

\* the callbacks invoked by the step
NewCallbacks == SubSeq(callbacks', Len(callbacks) + 1, Len(callbacks'))

\* C14: only process_notifications, on the worker thread, invokes add-root
\* callbacks; it invokes at most one callback per request it took, in the order
\* of the requests; and where the tree accepted the root and the callback got
\* true, the root was in the root list when the callback ran, and the crawl was
\* over: the last callback of the run saw the tree as the run left it.
C14_CallbackOnceAfterCrawl ==
    [][/\ ~Processed => callbacks' = callbacks
       /\ Processed =>
            LET taken == IF has_notifications THEN notifications ELSE <<>>
                new == NewCallbacks
            IN  /\ Len(new) <= Len(taken)
                /\ \A i \in DOMAIN new :
                        /\ new[i].path = taken[i].path
                        /\ (new[i].ok /\ new[i].node # NONE) =>
                                /\ \E k \in DOMAIN new[i].roots : new[i].roots[k] = new[i].path
                                /\ i = Len(new) => new[i].nodes = Len(nodes')]_vars

\* the callback of an accepted root was invoked with true after a crawl that
\* added a file to the tree
C14_Witness ==
    /\ op.kind = "process_notifications"
    /\ callbacks # <<>>
    /\ LET c == callbacks[Len(callbacks)]
       IN  c.ok /\ c.node # NONE /\ c.nodes >= 2 /\ c.roots = <<P_r>>
\* ---------------------------------------------------------- ignored roots
\* the watcher is started on /r with a filter that ignores /r/d, which holds a
\* directory; add_root is called for any directory, files come and go
IgnoredInit == StartedOn(InitialDisk({P_d, P_de}), {P_d})

IgnoredNext ==
    \/ WorkerNext
    \/ IngestorNext
    \/ E_Tick
    \/ \E p \in FilePaths : E_Create(p)
    \/ E_Remove(P_f)
    \/ \E p \in {P_r, P_d, P_de}, recursive \in BOOLEAN : A_AddRoot(p, recursive)
    \/ \E p \in {P_r, P_d, P_de}, recursive \in BOOLEAN : A_AddRootIgnored(p, recursive)

SpecIgnored == IgnoredInit /\ [][IgnoredNext]_vars

\* the filter ignores path or a directory above it
IgnoredRoot(filter, path) ==
    \E q \in Paths : (q = path \/ is_parent_of(q, path)) /\ q \in filter

\* path is beneath an ignored directory, or is one
UnderIgnored(path) == IgnoredRoot(cfilter, path)

\* C15: add_root on a root that the filter ignores, itself or through one of
\* the directories above it, returns Ok and changes nothing: no request is
\* enqueued for such a root, and the watcher has no watch, no node and no
\* event for anything in an ignored directory.
C15_IgnoredRootIsNoOp ==
    /\ [][/\ Len(notifications') > Len(notifications) =>
                ~IgnoredRoot(cfilter, notifications'[Len(notifications')].path)
          /\ (op' # op /\ op'.kind = "add_root") =>
                /\ op'.ret = "Ok"
                /\ IgnoredRoot(cfilter, op'.path)
                /\ UNCHANGED <<debvars, treevars, workervars, sharedvars, ingestorvars,
                               kernelvars>>
                /\ UNCHANGED <<delivered, callbacks, out>>]_vars
    /\ [](\A p \in Paths : UnderIgnored(p) =>
            /\ delivered[p] = <<>>
            /\ \A i \in DOMAIN nodes : nodes[i].path # p
            /\ \A wd \in DOMAIN watches : watches[wd] # p
            /\ \A i \in DOMAIN callbacks : callbacks[i].path # p)

\* add_root was called for /r/d/e, which lies in the ignored /r/d, after a
\* file was created in /r/d
C15_Witness ==
    /\ op.kind = "add_root"
    /\ op.path = P_de
    /\ disk[P_df].kind = "file"
    /\ UnderIgnored(P_de) /\ ~ignore_path(cfilter, P_de)
\* ------------------------------------------------- roots that are no directory
\* add_root is called for the directory /r and for the file /r/f, which is in
\* the tree when the initial crawl or a change has put it there
RootKindsNext ==
    \/ WorkerNext
    \/ IngestorNext
    \/ E_Tick
    \/ E_Create(P_f)
    \/ E_Remove(P_f)
    \/ \E p \in {P_r, P_f}, recursive \in BOOLEAN : A_AddRoot(p, recursive)

SpecRootKinds == Init /\ [][RootKindsNext]_vars

\* the tree nodes has a node for path
HasNode(tree, path) == \E i \in DOMAIN tree : tree[i].path = path

\* C16: a run of process_notifications on a single request for a root that
\* is not a directory refuses it: it adds no node for that path, registers no
\* watch for it and does not enter it in the root list, whether or not the
\* tree had a node for the path.
C16_NonDirectoryRootRefused ==
    [][(Processed /\ has_notifications /\ Len(notifications) = 1) =>
        LET path == notifications[1].path
        IN  disk[path].kind # "dir" =>
                /\ HasNode(nodes', path) => HasNode(nodes, path)
                /\ \A wd \in DOMAIN watches' : watches'[wd] # path
                /\ \A k \in DOMAIN roots' : nodes'[roots'[k].node].path # path]_vars
\* ------------------------------------------------ FileTree::add_root, called directly
\* FileTree::add_root(path, recursive); two calls in a row differ in call
T_TreeAddRoot(path, recursive) ==
    /\ LET Done(r) ==
               /\ Install(r.s)
               /\ op' = [kind |-> "tree_add_root", path |-> path, recursive |-> recursive,
                         node |-> r.node,
                         call |-> IF op.kind = "tree_add_root" THEN 1 - op.call ELSE 0]
       IN  Done(add_root(TreeCur, disk, path, recursive))
    /\ UNCHANGED <<workervars, waker, ipc, ifilter>>
    /\ UNCHANGED <<sharedvars, disk, tick, kq, elapsed>>
    /\ UNCHANGED <<batch, dlog, fslog, delivered, callbacks, arrived>>

AddRootNext ==
    \/ T_AddRoot
    \/ \E path \in Paths, recursive \in BOOLEAN : T_TreeAddRoot(path, recursive)

\* add_root is called on the tree for any path, before and after the crawl
\* of the root /r
SpecAddRoot == TreeInit /\ [][AddRootNext]_vars

\* the tree after the step
TreeAfter == [TreeCur EXCEPT !.nodes = nodes', !.dirs = dirs', !.path_table = path_table']

\* the step is a call of FileTree::add_root on a path that has a node
AddRootOnNode == op' # op /\ op'.kind = "tree_add_root" /\ HasNode(nodes, op'.path)

\* C17: add_root on a path that has a node adds no node and no entry of the
\* path index; called with recursive = true on a node whose flags are
\* WATCH_CHILDREN alone it sets RECURSIVE; and the same call made once more
\* leaves the nodes with their flags, the child lists and the path index as
\* they are after the first.
C17_AddRootOnExistingNode ==
    [][AddRootOnNode =>
        LET id == Lookup(TreeCur, op'.path)
            again == add_root(TreeAfter, disk, op'.path, op'.recursive).s
        IN  /\ Len(nodes') = Len(nodes)
            /\ DOMAIN path_table' = DOMAIN path_table
            /\ (op'.recursive /\ nodes[id].flags = WATCH_CHILDREN) =>
                    FLAG_RECURSIVE \subseteq nodes'[id].flags
            /\ again.nodes = nodes'
            /\ again.dirs = dirs'
            /\ again.path_table = path_table']_vars
\* ------------------------------------------------------------- set_filter
\* a thread calls set_filter, with and without recrawl, while a file is created
FilterNext ==
    \/ WorkerNext
    \/ IngestorNext
    \/ E_Tick
    \/ E_Create(P_f)
    \/ \E v \in DOMAIN FilterSeq, recrawl \in BOOLEAN : A_SetFilter(FilterSeq[v], recrawl)
    \/ A_SetFilterRecrawl

\* the threads are scheduled fairly, and a thread that is in set_filter goes
\* on to its end
FairFilter ==
    Started({}) /\ [][FilterNext]_vars /\ Fairness /\ WF_vars(A_SetFilterRecrawl)

\* C18: a recrawl asked for through the queue is performed: the counter of
\* recrawls goes up.  Every recrawl runs with the filter of the configuration
\* at that moment, which is the filter of the last set_filter that asked for a
\* recrawl or one set later.  And the ingestor, woken by set_filter, takes
\* over the filter of the configuration: it never runs with a filter newer
\* than the configuration's, and once it is awake it has the one set.
C18_RecrawlUsesNewFilter ==
    /\ \A n \in 0..(MaxTick + Len(FilterSeq)) :
            (shared.recrawl /\ recrawls = n) ~> (recrawls > n)
    /\ [][recrawls' > recrawls =>
            /\ op'.filter = cfilter
            /\ Version(op'.filter) >= setf.asked]_vars
    /\ \A v \in DOMAIN FilterSeq : (Version(cfilter) = v) ~> (Version(ifilter) >= v)
    /\ [](~waker => ifilter = cfilter)

\* the worker has performed a recrawl with the second filter set, which was
\* set with recrawl = true, and the ingestor has that filter
C18_Witness ==
    /\ op.kind = "recrawl"
    /\ recrawls > 0
    /\ setf.asked = 3
    /\ op.filter = FilterSeq[3]
    /\ ifilter = FilterSeq[3]
    /\ disk[P_f].kind = "file"
\* ------------------------------------------------- the order of the paths
\* the bytes of the components of the compared paths: one that sorts before
\* the separator and one that sorts after it
ComponentBytes == {46, 97}

\* the components: the byte strings of 1..MaxComponentLen bytes
Components ==
    UNION {[1..n -> ComponentBytes] : n \in 1..MaxComponentLen}

RECURSIVE PathsOf(_)
\* the canonical paths of n components, as push builds them: a separator and
\* the component, for each component
PathsOf(n) ==
    IF n = 0 THEN {<<>>}
    ELSE {Join(p, c) : p \in PathsOf(n - 1), c \in Components}

\* the canonical paths that are compared
CmpPaths == UNION {PathsOf(n) : n \in 1..MaxComponents}

\* two paths are at hand
CmpInit ==
    /\ NothingStarted
    /\ \E lhs \in CmpPaths, rhs \in CmpPaths : op = [kind |-> "paths", lhs |-> lhs, rhs |-> rhs]

\* lhs.cmp(&rhs) is called
X_Cmp ==
    /\ op.kind = "paths"
    /\ op' = [kind |-> "cmp", lhs |-> op.lhs, rhs |-> op.rhs,
              ordering |-> PathCmp(op.lhs, op.rhs)]
    /\ UNCHANGED <<debvars, treevars, workervars, sharedvars, ingestorvars, kernelvars>>
    /\ UNCHANGED <<batch, dlog, fslog, out, delivered, callbacks, arrived>>

SpecCmp == CmpInit /\ [][X_Cmp]_vars

\* C19: cmp returns Less when the left path is a directory above the right
\* one (the right path is the left path, a separator and more), Greater when
\* the right path is a directory above the left one, and Equal only for equal
\* paths.
C19_ParentSortsBeforeChild ==
    op.kind = "cmp" =>
        /\ is_parent_of(op.lhs, op.rhs) => op.ordering = Less
        /\ is_parent_of(op.rhs, op.lhs) => op.ordering = Greater
        /\ op.ordering = Equal => op.lhs = op.rhs
\* ------------------------------------------- PendingChanges, called directly
\* PendingChanges::add_watcher(path, flags) on the worker's buffer
P_AddWatcher(path, flags) ==
    /\ pending_changes' = PendingAddWatcher(pending_changes, path, flags)
    /\ op' = [kind |-> "add_watcher", path |-> path]
    /\ UNCHANGED <<debvars, treevars, roots, wpc, setteled, timed>>
    /\ UNCHANGED <<sharedvars, ingestorvars, kernelvars>>
    /\ UNCHANGED <<batch, dlog, fslog, out, delivered, callbacks, arrived>>

\* PendingChanges::drain(), iterated to its end: had is what was pending,
\* yielded what the iterator gave, in order
P_Drain ==
    /\ pending_changes' = [pending_changes EXCEPT !.changes = <<>>]
    /\ op' = [kind |-> "drain", had |-> pending_changes.changes,
              yielded |-> PendingDrain(pending_changes)]
    /\ UNCHANGED <<debvars, treevars, roots, wpc, setteled, timed>>
    /\ UNCHANGED <<sharedvars, ingestorvars, kernelvars>>
    /\ UNCHANGED <<batch, dlog, fslog, out, delivered, callbacks, arrived>>

PendingNext ==
    \/ \E path \in Paths, flags \in {{}, {NEEDS_RECURSIVE_CRAWL}} : P_AddWatcher(path, flags)
    \/ P_Drain

SpecPending == Blank /\ [][PendingNext]_vars

\* C20: drain leaves no pending change behind and yields each change that was
\* pending exactly once, in an order in which no change comes after a change
\* with a greater path and every change for a directory comes before the
\* changes for the paths beneath that directory.
C20_DrainYieldsParentsFirst ==
    op.kind = "drain" =>
        /\ pending_changes.changes = <<>>
        /\ Len(op.yielded) = Len(op.had)
        /\ \A i \in DOMAIN op.had :
                Cardinality({j \in DOMAIN op.yielded : op.yielded[j] = op.had[i]}) = 1
        /\ \A i, j \in DOMAIN op.yielded :
                /\ i < j => PathCmp(op.yielded[i].path, op.yielded[j].path) # Greater
                /\ is_parent_of(op.yielded[i].path, op.yielded[j].path) => i < j

\* C24: a call from a caller thread never has to wait for a handler
\* invocation of the worker: whenever add_handler has room for a handler it
\* can take its step, and whenever set_filter has a filter to set it can take
\* its first step, whatever the worker is doing.
C24_CallersNeverWaitForWorker ==
    /\ registered < MaxHandlers => ENABLED A_AddHandler(TRUE)
    /\ (setf.pc = "idle" /\ Version(cfilter) < Len(FilterSeq)) =>
            ENABLED A_SetFilter(FilterSeq[Len(FilterSeq)], FALSE)

\* ------------------------------------------- the pending queue and its users
\* The shared queue between the ingestor, set_filter and the worker, driven
\* by its operations alone.  op carries the history: asked and taken are the
\* flags add_watcher was called with for the content of the shared queue and
\* of the worker's buffer, added counts the calls that did not meet a pending
\* change for their path, superseded those of them a recrawl did away with,
\* handed the changes the drain in the worker yielded.  The calls a recrawl
\* supersedes are forgotten when the recrawl is asked for and when the worker
\* takes the bit.
MaxAdds == 4

QueuePaths == {P_d, P_f}

WatcherFlags == {{}, {NEEDS_RECURSIVE_CRAWL}}

NoAsked == [p \in QueuePaths |-> {}]

NoCount == [p \in QueuePaths |-> 0]

\* the number of changes for path in a sequence of changes
Pending(changes, path) == Cardinality({i \in DOMAIN changes : changes[i].path = path})

QueueFrame ==
    /\ UNCHANGED <<debvars, treevars, roots, timed, ingestorvars, kernelvars>>
    /\ UNCHANGED <<notified, has_notifications, notifications, shutdown, recrawls, cfilter,
                   handlers, registered, setf, retain>>
    /\ UNCHANGED <<batch, dlog, fslog, out, delivered, callbacks, arrived>>

QueueInit ==
    /\ NothingStarted
    /\ op = [kind |-> "init", calls |-> 0, before |-> NewPending,
             asked |-> NoAsked, taken |-> NoAsked,
             added |-> NoCount, superseded |-> NoCount, handed |-> NoCount]

\* the ingestor: self.changes.lock().add_watcher(path, flags)
Q_AddWatcher(path, flags) ==
    /\ op.calls < MaxAdds
    /\ shared' = PendingAddWatcher(shared, path, flags)
    /\ op' = [op EXCEPT
                !.kind = "add_watcher", !.calls = @ + 1, !.before = shared,
                !.asked[path] = @ \cup {flags},
                !.added[path] = IF Pending(shared.changes, path) = 0 THEN @ + 1 ELSE @,
                !.superseded[path] = IF Pending(shared.changes, path) = 0 /\ shared.recrawl
                                     THEN @ + 1 ELSE @]
    /\ UNCHANGED <<pending_changes, wpc, setteled>>
    /\ QueueFrame

\* the ingestor on an overflow, or set_filter: changes.lock().recrawl()
Q_Recrawl ==
    /\ shared' = PendingRecrawl(shared)
    /\ op' = [op EXCEPT
                !.kind = "recrawl", !.before = shared, !.asked = NoAsked,
                !.superseded = [p \in QueuePaths |-> @[p] + Pending(shared.changes, p)]]
    /\ UNCHANGED <<pending_changes, wpc, setteled>>
    /\ QueueFrame

\* Worker::wait_for_changes to its return: take or take_timeout, woken with
\* something in the queue, by exit(), or by the timeout
Q_Wait(exit, is_timed, time) ==
    /\ wpc = "loop"
    /\ LET outcome == WaitOutcome(PendingIsEmpty(shared) /\ ~exit, is_timed, time)
       IN  /\ outcome # "wait"
           /\ WaitRound(outcome)
           /\ op' = [op EXCEPT
                       !.kind = outcome, !.before = shared,
                       !.asked = IF outcome = "taken" THEN op.taken ELSE @,
                       !.taken = IF outcome = "taken" THEN op.asked ELSE @]
    /\ QueueFrame

\* Worker::run after a wait that timed out: the flush, then continue
Q_Flush ==
    /\ wpc = "woken" /\ setteled
    /\ wpc' = "loop"
    /\ op' = [op EXCEPT !.kind = "flush"]
    /\ UNCHANGED <<shared, pending_changes, setteled>>
    /\ QueueFrame

\* Worker::run: if self.pending_changes.take_recrawl() { crawl the roots; continue }
Q_TakeRecrawl ==
    /\ wpc = "woken" /\ ~setteled
    /\ pending_changes.recrawl
    /\ pending_changes' = [pending_changes EXCEPT !.recrawl = FALSE]
    /\ wpc' = "loop"
    /\ op' = [op EXCEPT !.kind = "take_recrawl", !.taken = NoAsked]
    /\ UNCHANGED <<shared, setteled>>
    /\ QueueFrame

\* Worker::run: apply_transaction drains the buffer
Q_Transaction ==
    /\ wpc = "woken" /\ ~setteled
    /\ ~pending_changes.recrawl
    /\ pending_changes' = [pending_changes EXCEPT !.changes = <<>>]
    /\ wpc' = "loop"
    /\ op' = [op EXCEPT
                !.kind = "transaction", !.taken = NoAsked,
                !.handed = [p \in QueuePaths |->
                               @[p] + Pending(PendingDrain(pending_changes), p)]]
    /\ UNCHANGED <<shared, setteled>>
    /\ QueueFrame

QueueNext ==
    \/ \E path \in QueuePaths, flags \in WatcherFlags : Q_AddWatcher(path, flags)
    \/ Q_Recrawl
    \/ \E exit, is_timed \in BOOLEAN, time \in {0, SettleTime} : Q_Wait(exit, is_timed, time)
    \/ Q_Flush
    \/ Q_TakeRecrawl
    \/ Q_Transaction

SpecQueue == QueueInit /\ [][QueueNext]_vars

\* C21: whenever the recrawl bit of the shared queue is set its change set is
\* empty, and an add_watcher that finds the bit set leaves the queue as it
\* was.
C21_RecrawlBitMeansNoChanges ==
    /\ shared.recrawl => shared.changes = <<>>
    /\ (op.kind = "add_watcher" /\ op.before.recrawl) => shared = op.before

\* add_watcher was called on a queue with the recrawl bit set
C21_Witness ==
    /\ op.kind = "add_watcher" /\ op.before.recrawl
    /\ shared.recrawl

\* the flags a queue must hold for path after the calls in asked
FlagsAsked(asked, path) == UNION asked[path] \cup {ORIGIN_WATCHER}

\* a queue holds at most one change per path, one for every path asked for,
\* with the union of the flags asked
HoldsAsked(pc, asked) ==
    \A path \in QueuePaths :
        /\ Pending(pc.changes, path) = IF asked[path] = {} THEN 0 ELSE 1
        /\ \A i \in DOMAIN pc.changes :
                pc.changes[i].path = path => pc.changes[i].flags = FlagsAsked(asked, path)

\* C22: the pending set holds at most one change per path, and its flags are
\* the union of the flags of all add_watcher calls for the path since the
\* queue was last emptied, ORIGIN_WATCHER included; this is what the worker
\* finds in its buffer after the swap.
C22_FlagsAreUnionOfArrivals ==
    /\ ~shared.recrawl => HoldsAsked(shared, op.asked)
    /\ (op.kind = "taken" /\ ~pending_changes.recrawl) => HoldsAsked(pending_changes, op.taken)

\* two arrivals for one path, the first of them with NEEDS_RECURSIVE_CRAWL and
\* the second without, were coalesced
C22_Witness ==
    /\ op.kind = "add_watcher"
    /\ \E path \in QueuePaths :
        /\ Pending(op.before.changes, path) = 1
        /\ \E i \in DOMAIN op.before.changes :
                /\ op.before.changes[i].path = path
                /\ NEEDS_RECURSIVE_CRAWL \in op.before.changes[i].flags
        /\ op.asked[path] = WatcherFlags
        /\ Len(shared.changes) = 2

\* C23: every change added to the shared queue is in the shared queue, in the
\* worker's buffer, handed to the worker by the drain, or superseded by a
\* recrawl, and in exactly one of these; the swap leaves the shared queue
\* empty, and the worker goes back to waiting with an empty buffer.
C23_ChangesHandedExactlyOnce ==
    /\ \A path \in QueuePaths :
            op.added[path] = op.superseded[path] + op.handed[path]
                             + Pending(shared.changes, path)
                             + Pending(pending_changes.changes, path)
    /\ op.kind = "taken" => (shared = NewPending /\ pending_changes = op.before)
    /\ wpc = "loop" => pending_changes = NewPending

\* a change for one path was handed over twice, after two arrivals, and a
\* recrawl superseded an arrival
C23_Witness ==
    /\ op.kind = "transaction"
    /\ \E path \in QueuePaths : op.handed[path] = 2
    /\ \E path \in QueuePaths : op.superseded[path] > 0

\* ------------------------------------------------------------ the root list
\* the number of add-root requests made
MaxRoots == 4

\* the directories that are asked for as roots
RootPaths == {P_r, P_d, P_de}

\* the watcher is constructed over a disk that holds /r, /r/d, /r/d/e and the
\* file /r/f, and no root has been asked for
RootsInit ==
    /\ table = <<>> /\ events = <<>>
    /\ nodes = <<>> /\ dirs = <<>> /\ path_table = <<>>
    /\ pending_changes = NewPending /\ roots = <<>>
    /\ wpc = "loop" /\ setteled = FALSE /\ timed = FALSE
    /\ shared = NewPending /\ notified = FALSE
    /\ has_notifications = FALSE /\ notifications = <<>>
    /\ shutdown = FALSE /\ recrawls = 0
    /\ cfilter = DefaultFilter /\ handlers = <<>> /\ registered = 0
    /\ setf = NoSetFilter /\ retain = NoRetain
    /\ watches = <<>> /\ waker = FALSE /\ ipc = "poll" /\ ifilter = DefaultFilter
    /\ disk = InitialDisk({P_d, P_de, P_f})
    /\ tick = 1 /\ kq = <<>> /\ kw = {}
    /\ elapsed = 0
    /\ batch = <<>> /\ dlog = NoLog /\ fslog = NoLog /\ out = <<>> /\ delivered = NoDelivered
    /\ callbacks = <<>> /\ arrived = FALSE
    /\ op = [kind |-> "init"]

\* Watcher::add_root(path, recursive, callback) while no request is waiting
R_AddRoot(path, recursive) ==
    /\ notifications = <<>>
    /\ Len(callbacks) < MaxRoots
    /\ notifications' = <<[path |-> path, recursive |-> recursive]>>
    /\ has_notifications' = TRUE
    /\ op' = [kind |-> "add_root", path |-> path, recursive |-> recursive, ret |-> "Ok"]
    /\ UNCHANGED <<debvars, treevars, workervars, ingestorvars, kernelvars>>
    /\ UNCHANGED <<shared, notified, shutdown, recrawls, cfilter, handlers, registered,
                   setf, retain>>
    /\ UNCHANGED <<batch, dlog, fslog, out, delivered, callbacks, arrived>>

RootsNext ==
    \/ \E path \in RootPaths, recursive \in BOOLEAN : R_AddRoot(path, recursive)
    \/ T_AddRoot

\* the worker processes add-root requests for directories, one after another
SpecRoots == RootsInit /\ [][RootsNext]_vars

\* the paths of a root list
RootPathsOf(tree, list) == [k \in DOMAIN list |-> tree[list[k].node].path]

\* the step processes a request for a recursive root and enters it in the list
RecursiveRootProcessed ==
    /\ op'.kind = "process_notifications" /\ op.kind = "add_root"
    /\ op.recursive
    /\ callbacks'[Len(callbacks')].ok
    /\ callbacks'[Len(callbacks')].node # NONE

\* path a comes strictly before path b: a directory before what is beneath
\* it, and otherwise as cmp orders them
SortsBefore(a, b) == is_parent_of(a, b) \/ (~is_parent_of(b, a) /\ PathCmp(a, b) = Less)

\* C25: the root list is strictly sorted by path, and processing a recursive
\* root takes out of the list the roots beneath it and no other root.
C25_RootListSorted ==
    /\ [](\A k \in 1..(Len(roots) - 1) :
            SortsBefore(nodes[roots[k].node].path, nodes[roots[k + 1].node].path))
    /\ [][RecursiveRootProcessed =>
            LET before == {RootPathsOf(nodes, roots)[k] : k \in DOMAIN roots}
                after == {RootPathsOf(nodes', roots')[k] : k \in DOMAIN roots'}
            IN  after = {p \in before : ~is_parent_of(op.path, p)} \cup {op.path}]_vars

\* ------------------------------------------------ what a crawl leaves behind
\* the step is the crawl of the roots
CrawlStep == op'.kind = "recrawl" /\ disk' = disk

\* the children the tree has for the directories that are roots
ChildrenOfRoots ==
    {c \in DOMAIN nodes :
        \E i \in DOMAIN roots :
            LET r == roots[i].node
            IN  /\ nodes[r].children # NONE
                /\ \E k \in DOMAIN dirs[nodes[r].children] : dirs[nodes[r].children][k] = c}

\* C26: when a crawl returns, every node that was a child of a crawled
\* directory and is not on disk has meta Deleted, and if it was a file a
\* Delete event was emitted for it.
C26_MissingChildrenAreDeleted ==
    [][CrawlStep =>
        \A c \in ChildrenOfRoots :
            disk[nodes[c].path].kind = "none" =>
                /\ nodes'[c].meta = MetaDeleted
                /\ nodes[c].meta.k = "File" => nodes[c].path \in Emitted(Delete)]_vars

\* C27: outside of a crawl no node of the tree has MAYBE_DELETED set.
C27_NoMarkOutsideCrawl ==
    \A n \in DOMAIN nodes : nodes[n].flags \cap MAYBE_DELETED = {}

\* ------------------------------------- a crawl over entries that give no node
CrawlNext ==
    \/ T_AddRoot
    \/ T_Crawl

\* the root /r is added on a disk and under a filter of any kind, and then
\* crawled again
SpecCrawl == CrawlInit /\ [][CrawlNext]_vars

\* C28: a crawl that comes across an entry that yields no node skips the
\* entry and completes: the tree is never indexed with the NONE node id.
C28_CrawlSkipsEntriesWithoutNode ==
    op.kind = "recrawl" => ~op.panic

\* ------------------------------------------------- a path that lstat fails on
\* lstat of the file p starts to fail with an error other than ENOENT and
\* ENOTDIR (EACCES after the search permission of its directory was taken
\* away); the file is still there
E_Deny(p) ==
    /\ disk[p].kind = "file"
    /\ disk' = [disk EXCEPT ![p].kind = "denied"]
    /\ UNCHANGED <<debvars, treevars, workervars, sharedvars, ingestorvars>>
    /\ UNCHANGED <<tick, kq, kw, elapsed>>
    /\ UNCHANGED histvars

StatNext ==
    \/ T_AddRoot
    \/ \E path \in Paths : T_Change(path)
    \/ \E p \in FilePaths : E_Write(p)
    \/ \E p \in FilePaths : E_Deny(p)

\* changes are applied to the tree while files are written to and lstat
\* starts to fail on them
SpecStat == TreeInit /\ [][StatNext]_vars

\* the step applies a change for the path of node n
ChangeApplied(n) ==
    /\ op'.kind = "transaction" /\ disk' = disk
    /\ op'.changes[1].path = nodes[n].path

\* C29: a changed path whose lstat fails with an error other than ENOENT and
\* ENOTDIR is skipped: the meta of its node stays as it is and no Delete event
\* is emitted for it.
C29_StatErrorSkipsPath ==
    [][\A n \in DOMAIN nodes :
          (ChangeApplied(n) /\ disk[nodes[n].path].kind = "denied") =>
              /\ nodes'[n].meta = nodes[n].meta
              /\ nodes[n].path \notin Emitted(Delete)]_vars

\* ------------------------------------------- the ingestor's event handler
\* the flags of the events the kernel hands to the handler
EventFlagSets ==
    {{MODIFY}, {CREATE}, {DELETE}, {CREATE, ISDIR}, {DELETE_SELF}, {MOVE_SELF}, {IGNORED},
     {Q_OVERFLOW}}

\* the events: for the watches of /r and /r/d and for no watch, about the
\* directory itself or about its entry f
KernelEvents ==
    {[wd |-> wd, child |-> child, flags |-> flags] :
        wd \in {InvalidWd, InitialInode(P_r), InitialInode(P_d)},
        child \in {<<>>, Name(P_f)},
        flags \in EventFlagSets}

\* InotifyWatcher::watch_dir: the descriptor is entered in the map
X_WatchDir(path) ==
    /\ watches' = (InitialInode(path) :> path) @@ watches
    /\ kw' = kw \cup {InitialInode(path)}
    /\ op' = [kind |-> "watch_dir", path |-> path]
    /\ UNCHANGED <<debvars, treevars, workervars, sharedvars, waker, ipc, ifilter>>
    /\ UNCHANGED <<disk, tick, kq, elapsed>>
    /\ UNCHANGED <<batch, dlog, fslog, out, delivered, callbacks, arrived>>

\* InotifyWatcher::handle_event on an event read from the kernel; known tells
\* whether the descriptor map held the event's watch descriptor
X_HandleEvent(event) ==
    /\ LET Done(r) ==
               /\ shared' = r.pc
               /\ watches' = r.watches
       IN  Done(handle_event(shared, watches, ifilter, event))
    /\ op' = [kind |-> "handle_event", event |-> event, known |-> event.wd \in DOMAIN watches]
    /\ UNCHANGED <<debvars, treevars, workervars, waker, ipc, ifilter, kernelvars>>
    /\ UNCHANGED <<notified, has_notifications, notifications, shutdown, recrawls, cfilter,
                   handlers, registered, setf, retain>>
    /\ UNCHANGED <<batch, dlog, fslog, out, delivered, callbacks, arrived>>

\* the worker takes what is in the queue
X_Take ==
    /\ ~PendingIsEmpty(shared)
    /\ shared' = NewPending
    /\ op' = [kind |-> "take"]
    /\ UNCHANGED <<debvars, treevars, workervars, ingestorvars, kernelvars>>
    /\ UNCHANGED <<notified, has_notifications, notifications, shutdown, recrawls, cfilter,
                   handlers, registered, setf, retain>>
    /\ UNCHANGED <<batch, dlog, fslog, out, delivered, callbacks, arrived>>

EventsNext ==
    \/ \E path \in {P_r, P_d} : X_WatchDir(path)
    \/ \E event \in KernelEvents : X_HandleEvent(event)
    \/ X_Take

\* the handler of the ingestor, given any event at any content of the map
SpecEvents == Blank /\ [][EventsNext]_vars

\* C30: every kernel event whose watch descriptor is not in the descriptor
\* map sets the recrawl bit of the pending queue, whatever its flags.
C30_UnknownWatchMeansRecrawl ==
    (op.kind = "handle_event" /\ ~op.known) => shared.recrawl

\* ------------------------------------------------- transactions of changes
\* the number of changes of a transaction
MaxTx == 3

\* the flags the ingestor passes to add_watcher: an event of the watch of a
\* directory itself, and one about an entry that was created or deleted, ask
\* for a recursive crawl; any other event about an entry (ATTRIB, MODIFY, a
\* move) of a watched directory - for /r, of its parent - does not
FlagsFor(path) == WatcherFlags

\* add_root("/r", recursive), once
Tx_AddRoot(recursive) ==
    /\ callbacks = <<>>
    /\ R_AddRoot(P_r, recursive)

\* a change is added to the transaction the worker will take
Tx_Add(path, flags) ==
    /\ ~has_notifications /\ roots # <<>>
    /\ Len(pending_changes.changes) < MaxTx
    /\ P_AddWatcher(path, flags)

\* FileTree::apply_transaction on the pending changes, as the last branch of
\* Worker::run calls it
T_Apply ==
    /\ ~has_notifications
    /\ pending_changes.changes # <<>>
    /\ pending_changes' = NewPending
    /\ LET Done(S) ==
               /\ Install(S)
               /\ op' = [kind |-> "transaction", changes |-> PendingDrain(pending_changes),
                         calls |-> S.calls]
       IN  Done(apply_transaction(TreeCur, disk, cfilter, pending_changes))
    /\ UNCHANGED <<roots, wpc, setteled, timed, waker, ipc, ifilter>>
    /\ UNCHANGED <<sharedvars, disk, tick, kq, elapsed>>
    /\ UNCHANGED <<batch, dlog, fslog, delivered, callbacks, arrived>>

TxNext ==
    \/ \E recursive \in BOOLEAN : Tx_AddRoot(recursive)
    \/ T_AddRoot
    \/ \E path \in Paths : \E flags \in FlagsFor(path) : Tx_Add(path, flags)
    \/ T_Apply
    \/ E_Remove(P_de)
    \/ E_MkDir(P_de, 1)

\* the root /r is added, recursive or not, and transactions of up to MaxTx
\* changes are applied while the directory /r/d/e comes and goes
SpecTx == RootsInit /\ [][TxNext]_vars

\* C31: within one apply_transaction, once the change for a directory D has
\* been applied with recursion, no pending change whose path lies beneath D is
\* applied on its own, and every pending change that lies beneath no such D
\* is applied exactly once.
C31_ChildrenOfRecursedChangeSkipped ==
    (op.kind = "transaction" /\ "calls" \in DOMAIN op) =>
        /\ \A j, k \in DOMAIN op.calls :
                (j < k /\ op.calls[j].recurse) =>
                    ~is_parent_of(op.calls[j].path, op.calls[k].path)
        /\ \A i \in DOMAIN op.changes :
                LET n == Cardinality({k \in DOMAIN op.calls :
                                        op.calls[k].path = op.changes[i].path})
                    beneath == \E k \in DOMAIN op.calls :
                                  /\ op.calls[k].recurse
                                  /\ is_parent_of(op.calls[k].path, op.changes[i].path)
                IN  /\ n <= 1
                    /\ ~beneath => n = 1

\* the step applies a transaction of one change
OneChangeApplied ==
    /\ op'.kind = "transaction" /\ "calls" \in DOMAIN op'
    /\ Len(pending_changes.changes) = 1 /\ pending_changes' = NewPending
    /\ Len(op'.calls) = 1

\* the inode of the node of the change differs from the one on disk
InodeChanged(call) ==
    /\ ~call.vacant
    /\ disk[call.path].kind \in {"file", "dir"}
    /\ nodes[path_table[call.path]].inode # disk[call.path].inode

\* after the step the node of the change is a directory whose children are
\* watched, and the filter does not ignore it
WatchedDirectory(call) ==
    /\ call.node # NONE
    /\ nodes'[call.node].meta.k = "Dir"
    /\ WATCH_CHILDREN \subseteq nodes'[call.node].flags
    /\ ~ignore_path(cfilter, call.path)

\* C32, as stated: apply_transaction crawls the node of a change exactly when
\* the change carried NEEDS_RECURSIVE_CRAWL or the inode of its node changed,
\* the node is then a directory whose children are watched, and the filter
\* does not ignore it; a change without the flag and without a change of
\* inode never starts a crawl.
C32_CrawlExactlyWhenAsked ==
    [][OneChangeApplied =>
        LET call == op'.calls[1]
            asked == NEEDS_RECURSIVE_CRAWL \in call.flags \/ InodeChanged(call)
        IN  call.crawled <=> (asked /\ WatchedDirectory(call))]_vars

\* C32, amended: for a path that has a node the crawl runs exactly under the
\* conditions stated; for a path that had no node it runs whenever the new
\* node is a directory whose children are watched (it is beneath a recursive
\* node) and the filter does not ignore it, with or without
\* NEEDS_RECURSIVE_CRAWL.
C32_CrawlWhenAskedOrNew ==
    [][OneChangeApplied =>
        LET call == op'.calls[1]
            asked == \/ call.vacant
                     \/ NEEDS_RECURSIVE_CRAWL \in call.flags
                     \/ InodeChanged(call)
        IN  call.crawled <=> (asked /\ WatchedDirectory(call))]_vars

\* a change without NEEDS_RECURSIVE_CRAWL for a directory the tree did not
\* know was applied and the directory was crawled
C32_Witness ==
    /\ op.kind = "transaction" /\ "calls" \in DOMAIN op
    /\ Len(op.calls) = 1
    /\ op.calls[1].vacant /\ op.calls[1].crawled
    /\ NEEDS_RECURSIVE_CRAWL \notin op.calls[1].flags
\* ---- roots of both kinds, with changes and recrawls ----

\* the add-root requests of a behaviour of SpecFlags
MaxFlagRoots == 2

\* FileSentry::add_root for the root directory or the directory in it
F_AddRoot(path, recursive) ==
    /\ Len(callbacks) < MaxFlagRoots
    /\ R_AddRoot(path, recursive)

\* the watcher queues a change while the queue is empty
F_Add(path, flags) ==
    /\ pending_changes.changes = <<>>
    /\ Tx_Add(path, flags)

\* Worker::run: the recrawl of all roots
F_Crawl ==
    /\ roots # <<>>
    /\ T_Crawl

FlagsNext ==
    \/ \E path \in {P_r, P_d}, recursive \in BOOLEAN : F_AddRoot(path, recursive)
    \/ T_AddRoot
    \/ \E path \in Paths : \E flags \in FlagsFor(path) : F_Add(path, flags)
    \/ T_Apply
    \/ F_Crawl
    \/ E_Remove(P_de)
    \/ E_MkDir(P_de, 1)

SpecFlags == RootsInit /\ [][FlagsNext]_vars

\* ---- the RECURSIVE flag ----

\* add_root(path, recursive = true) has returned a node
AddedRecursive(path) ==
    \E k \in DOMAIN callbacks :
        /\ callbacks[k].path = path
        /\ callbacks[k].recursive
        /\ callbacks[k].node # NONE

\* the node is the entry that is on disk at its path now
InStep(n) == disk[nodes[n].path].kind # "none" /\ disk[nodes[n].path].inode = nodes[n].inode

\* C33: a node has RECURSIVE set if and only if it, or an ancestor of it, was
\* added as a root with recursive = true; stated for the nodes that are in
\* step with the disk, which leaves aside the nodes of entries whose removal
\* the tree has not been told of yet.
C33_RecursiveIffBeneathRecursiveRoot ==
    \A n \in DOMAIN nodes :
        InStep(n) =>
            ((FLAG_RECURSIVE \subseteq nodes[n].flags)
                <=> \E q \in Paths : /\ q = nodes[n].path \/ is_parent_of(q, nodes[n].path)
                                     /\ AddedRecursive(q))

\* ---- a root that is not recursive ----

\* the kernel reports path to a watch: that of the directory it lies in, or
\* its own
Reported(path) == \E wd \in DOMAIN watches : watches[wd] \in {path, Parent(path)}

\* the watcher queues a change for a path that one of its watches reports
N_Add(path, flags) ==
    /\ Reported(path)
    /\ Tx_Add(path, flags)

ShallowNext ==
    \/ Tx_AddRoot(FALSE)
    \/ T_AddRoot
    \/ \E path \in Paths : \E flags \in FlagsFor(path) : N_Add(path, flags)
    \/ T_Apply
    \/ F_Crawl
    \/ \E p \in {P_d, P_de} : E_Remove(p)
    \/ \E p \in {P_d, P_de} : E_MkDir(p, 1)
    \/ E_Create(P_df)

SpecShallow == RootsInit /\ [][ShallowNext]_vars

\* the modelled paths two levels below /r
Deep == {p \in Paths : DepthBelow(P_r, p) >= 2}

\* C34: under the root /r added with recursive = false no node is created, no
\* watch is registered and no event is emitted for a path two or more levels
\* below /r, by the initial crawl, the application of changes or a recrawl.
C34_ShallowRootStaysShallow ==
    \A p \in Deep :
        /\ ~HasNode(nodes, p)
        /\ \A wd \in DOMAIN watches : watches[wd] # p
        /\ \A i \in DOMAIN out : out[i].path # p

\* the root was crawled and a change for /r/d was applied while /r/d held an
\* entry
C34_Witness ==
    /\ op.kind = "transaction" /\ "calls" \in DOMAIN op
    /\ \E i \in DOMAIN op.calls : op.calls[i].path = P_d /\ op.calls[i].node # NONE
    /\ \E p \in Deep : disk[p].kind # "none"
    /\ HasNode(nodes, P_d)

\* ---- the path table and the node vector ----

MOVED_TO == "MOVED_TO"

\* rename(2) of a file of the same size and modification time onto p: the
\* entry at p is another inode
E_Replace(p) ==
    /\ tick < MaxTick
    /\ disk[p].kind = "file"
    /\ disk' = [disk EXCEPT ![p].inode = tick + 1]
    /\ tick' = tick + 1
    /\ kq' = KNotifyParent(kq, disk, kw, p, {MOVED_TO})
    /\ UNCHANGED <<debvars, treevars, workervars, sharedvars, ingestorvars, kw, elapsed>>
    /\ fslog' = [fslog EXCEPT ![p] = Append(@, "mv")]
    /\ UNCHANGED <<batch, dlog, out, delivered, callbacks, arrived, op>>

FileNext ==
    \/ \E recursive \in BOOLEAN : Tx_AddRoot(recursive)
    \/ T_AddRoot
    \/ \E path \in {P_r, P_f} : \E flags \in FlagsFor(path) : F_Add(path, flags)
    \/ T_Apply
    \/ F_Crawl
    \/ E_Write(P_f)
    \/ E_Replace(P_f)
    \/ E_Remove(P_f)
    \/ E_Create(P_f)

SpecFile == RootsInit /\ [][FileNext]_vars

\* the node of path is a file and path is a file on disk
FileStays(path) ==
    /\ HasNode(nodes, path)
    /\ nodes[path_table[path]].meta.k = "File"
    /\ disk[path].kind = "file"

\* the node of path has the inode, the mtime and the size that are on disk
Unchanged(path) ==
    /\ nodes[path_table[path]].inode = disk[path].inode
    /\ nodes[path_table[path]].meta = MetaFile(disk[path].mtime, disk[path].size)

\* the events that the step emits for path
EmittedFor(path) == SelectSeq(out', LAMBDA e : e.path = path)

\* C36: for a file node whose path is still a file, a change that comes from
\* the kernel watcher, or one that finds another inode, emits Modified also
\* when mtime and size are unchanged; a change that comes from a crawl and
\* finds inode, mtime and size unchanged emits no event.
C36_ModifiedFromWatcherOrInode ==
    [][/\ (OneChangeApplied /\ FileStays(op'.calls[1].path)) =>
            LET call == op'.calls[1]
            IN  IF ORIGIN_WATCHER \in call.flags \/ ~Unchanged(call.path)
                THEN out' = <<[path |-> call.path, ty |-> Modified]>>
                ELSE out' = <<>>
       /\ (op'.kind = "recrawl" /\ disk' = disk) =>
            \A p \in Paths :
                FileStays(p) =>
                    EmittedFor(p) = IF Unchanged(p) THEN <<>>
                                   ELSE <<[path |-> p, ty |-> Modified]>>]_vars

\* a change from the watcher for /r/f, which nothing has touched since the
\* tree read it, was applied and Modified was emitted
C36_Witness ==
    /\ op.kind = "transaction" /\ "calls" \in DOMAIN op
    /\ Len(op.calls) = 1
    /\ op.calls[1].path = P_f /\ ~op.calls[1].vacant
    /\ ORIGIN_WATCHER \in op.calls[1].flags
    /\ fslog[P_f] = <<>>
    /\ out = <<[path |-> P_f, ty |-> Modified]>>

\* ---- child lists ----

\* how often child is in the child list of node
TimesChild(node, child) ==
    IF nodes[node].children = NONE THEN 0
    ELSE Cardinality({i \in DOMAIN dirs[nodes[node].children] :
                        dirs[nodes[node].children][i] = child})

\* C37: every node whose parent path has a node is exactly once in the child
\* list of that node, also when a directory is added as a root after a
\* directory beneath it.
C37_NodeInParentsChildList ==
    \A n \in DOMAIN nodes :
        HasNode(nodes, Parent(nodes[n].path)) =>
            TimesChild(path_table[Parent(nodes[n].path)], n) = 1

\* ---- a crawl after a crawl ----

\* C38: a crawl of the roots that follows a crawl of the roots, with the disk
\* as the first crawl saw it, emits no event; a deletion that was reported is
\* not reported again.
C38_SecondCrawlIsSilent == (op.kind = "recrawl" /\ op.again) => out = <<>>

\* ---- the add-root handshake ----

\* C39: a request that add_root has enqueued is, unless the watcher is shut
\* down, eventually taken by the worker and its callback invoked - also when
\* the request arrives after the worker has evaluated the predicate of its
\* wait and before it blocks.
C39_EnqueuedRootIsProcessed ==
    \A n \in 1..(MaxAddRoot + 1) :
        (Len(callbacks) + Len(notifications) >= n) ~> (shutdown \/ Len(callbacks) >= n)

\* ---- the value the add-root callback gets ----

\* C40: the add-root callback is invoked with true only if the tree accepted
\* the root (add_root returned a node), and then the root is in the root list
\* the callback sees; a root that the tree refuses gets false.
C40_TrueOnlyForAcceptedRoot ==
    \A k \in DOMAIN callbacks :
        /\ callbacks[k].ok =>
                /\ callbacks[k].node # NONE
                /\ \E j \in DOMAIN callbacks[k].roots :
                        callbacks[k].roots[j] = callbacks[k].path
        /\ callbacks[k].node = NONE => ~callbacks[k].ok

====
